---- MODULE Spec2Model ----
(***************************************************************************)
(* Model of the PerfKitBenchmarker benchmark lifecycle: pkb.RunBenchmark   *)
(* (the stage sequencer) driving a benchmark_spec.BenchmarkSpec through    *)
(* Prepare / Run / Cleanup, with BenchmarkSpec.Delete, PickleSpec and      *)
(* GetSpecFromFile.                                                        *)
(*                                                                         *)
(* One process invocation of RunBenchmark is a program counter `pc` that   *)
(* walks the function body; every call the sequencer or the spec makes on  *)
(* a collaborator (benchmark hooks, VM / network / firewall handles, the   *)
(* pickle file) is appended to `trace`, and the calls that raised are      *)
(* remembered in `failed` (positions of `trace`).  Collaborators are       *)
(* external: each of their calls nondeterministically returns or raises.   *)
(***************************************************************************)
EXTENDS Integers, Sequences, FiniteSets

\* ---------------------------------------------------------------- bounds
MaxVms == 2
MaxZones == 2
MaxStatic == 1
MaxHooks == 1
MaxDirectCalls == 1
MaxBenchmarks == 3
MaxParallelism == 2
MaxInitVms == 3
MaxSections == 2
MaxCount == 1

\* ------------------------------------------------------------- constants
STAGE_ALL == "all"
STAGE_PREPARE == "prepare"
STAGE_RUN == "run"
STAGE_CLEANUP == "cleanup"
Stages == {STAGE_ALL, STAGE_PREPARE, STAGE_RUN, STAGE_CLEANUP}

VARIABLES
  run_stage,  \* FLAGS.run_stage of the current process invocation
  spec,       \* the local `spec` of RunBenchmark (exists = FALSE: None)
  disk,       \* the pickle file {temp_dir}/{benchmark_name}
  pc,         \* position in RunBenchmark / BenchmarkSpec.Prepare / Delete
  ret,        \* where the running Delete was called from
  exc,        \* the exception propagating out of RunBenchmark ("none": none)
  todo,       \* resources the running fan-out / loop has not handled yet
  fanErr,     \* some thread of the running RunThreaded fan-out raised
  trace,      \* the sequencer's calls so far in this invocation, in order
  failed,     \* positions of trace whose call raised
  calls,      \* how often each call on a resource handle was made
  errs        \* the calls on resource handles that raised

\* pkb.RunBenchmarks (lines 360-376), the loop over the scheduled benchmarks.
VARIABLES
  benchmarks,   \* benchmark_list: for each benchmark, how far its RunBenchmark is
  parallelism,  \* FLAGS.parallelism
  rbs_pc,       \* position in RunBenchmarks
  rbs_exc,      \* the exception propagating out of RunBenchmarks
  samples       \* collector.samples is not empty

\* BenchmarkSpec.__init__ (benchmark_spec.py lines 132-209), step by step.
VARIABLES
  self,         \* the BenchmarkSpec under construction
  init_pc,      \* position in __init__
  pool,         \* VMs left in the static-VM pool
  sections,     \* config.node_sections and the thread working on each
  init_exc      \* the exception propagating out of __init__

\* The methods of a constructed BenchmarkSpec called one after the other.
VARIABLES
  last_op       \* the last method called on the spec and how it ended

\* BenchmarkSpec.PrepareVm (lines 314-336), one thread per VM.
VARIABLES
  prep          \* for each VM of the fan-out: its thread's position and calls

\* BenchmarkSpec.__init__ lines 188-203: the scratch-disk specs of the VMs.
VARIABLES
  scratch,      \* the flags and the benchmark_info entry the loop reads
  scratch_vms   \* self.vms: max_local_disks and disk_specs of each VM

\* pkb.RunBenchmarks lines 319-341: the checks before the benchmarks run.
VARIABLES
  run_uri,      \* FLAGS.run_uri: given on the command line or not, its characters
  requested,    \* FLAGS.benchmarks
  exit_status   \* what RunBenchmarks returned ("running": it has not)

\* AwsVirtualMachine.ImportKeyfile / DeleteKeyfile (lines 300-302, 403-433).
VARIABLES
  aws_lock,              \* AwsVirtualMachine._lock: 0 or the VM that holds it
  imported_keyfile_set,  \* class attribute: regions whose key was imported
  deleted_keyfile_set,   \* class attribute: regions whose key was deleted
  aws_vms,               \* for each VM: its region and its thread's position
  aws_cmds               \* the commands issued to the cloud, by region

\* The cloud providers' VM classes: AwsVirtualMachine's dedicated hosts
\* (lines 303-304, 457-482, 486-538), its _Create and _Exists (486-630) and
\* its CreateScratchDisk (632-658); ProfitBricksVirtualMachine's
\* _WaitUntilReady (216-246).
VARIABLES
  host_map,       \* class attribute: the host list of each (machine_type, zone)
  deleted_hosts,  \* class attribute: the hosts released
  hosts,          \* the AwsDedicatedHost objects made so far
  host_vms,       \* the dedicated-host VMs and their threads
  instance,       \* the AWS VM whose _Create and _Exists are followed
  disk_vm,        \* the AWS VM whose CreateScratchDisk calls are followed
  pb              \* the call of _WaitUntilReady

lifeVars == <<run_stage, spec, disk, pc, ret, exc, todo, fanErr, trace, failed,
              calls, errs>>

suiteVars == <<benchmarks, parallelism, rbs_pc, rbs_exc, samples>>

initVars == <<self, init_pc, pool, sections, init_exc>>

objVars == <<last_op>>

prepVars == <<prep>>

scratchVars == <<scratch, scratch_vms>>

entryVars == <<run_uri, requested, exit_status>>

awsVars == <<aws_lock, imported_keyfile_set, deleted_keyfile_set, aws_vms,
             aws_cmds>>

provVars == <<host_map, deleted_hosts, hosts, host_vms, instance, disk_vm, pb>>

\* The variables of the models that stand beside the lifecycle, the suite
\* and the construction.
extVars == <<objVars, prepVars, scratchVars, entryVars, awsVars, provVars>>

vars == <<run_stage, spec, disk, pc, ret, exc, todo, fanErr, trace, failed,
          calls, errs, benchmarks, parallelism, rbs_pc, rbs_exc, samples,
          self, init_pc, pool, sections, init_exc, last_op, prep, scratch,
          scratch_vms, run_uri, requested, exit_status, aws_lock, imported_keyfile_set,
          deleted_keyfile_set, aws_vms, aws_cmds, host_map, deleted_hosts,
          hosts, host_vms, instance, disk_vm, pb>>

NoSpec == [exists |-> FALSE, vms |-> <<>>, networks |-> {},
           deleted |-> FALSE, always_call_cleanup |-> FALSE]

Min(a, b) == IF a < b THEN a ELSE b

\* ------------------------------------------------------- trace utilities
Ev(op, arg) == <<op, arg>>

Positions(op) == {i \in 1..Len(trace) : trace[i][1] = op}

PositionsOf(op, arg) == {i \in 1..Len(trace) : trace[i] = Ev(op, arg)}

Count(op, arg) == Cardinality(PositionsOf(op, arg))

Called(op) == Positions(op) # {}

Raised(op) == Positions(op) \cap failed # {}

\* A call is made: it is appended to the trace; `ok` tells whether it returned.
Call(op, arg, ok) ==
  /\ trace' = Append(trace, Ev(op, arg))
  /\ failed' = IF ok THEN failed ELSE failed \cup {Len(trace) + 1}

\* The calls on resource handles: network handles by zone, VMs by their
\* position in spec.vms, the one firewall handle as 0.
ResourceCalls ==
  ({"network.Create", "network.Delete"} \X (1..MaxZones))
    \cup ({"vm.Create", "DeleteVm"} \X (1..MaxVms))
    \cup {<<"firewall.DisallowAllPorts", 0>>}

NoCalls == [c \in ResourceCalls |-> 0]

\* A call on a resource handle is made; `ok` tells whether it returned.
RCall(op, r, ok) ==
  /\ calls' = [calls EXCEPT ![<<op, r>>] = @ + 1]
  /\ errs' = IF ok THEN errs ELSE errs \cup {<<op, r>>}

\* ------------------------------------------------ BenchmarkSpec.__init__
\* zones[min(index, len(zones) - 1)], index counted from 0; zones are 1..nz.
ZoneOfIndex(index, nz) == Min(index, nz - 1) + 1

\* CreateVirtualMachine: a VM of the static pool is returned while the pool
\* lasts (no network handle is made for it, zone 0 stands for "no managed
\* zone"); otherwise a VM of the cloud's class in opt_zone.
CreateVirtualMachine(index, nz, nstatic) ==
  IF index < nstatic
    THEN [static |-> TRUE, zone |-> 0]
    ELSE [static |-> FALSE, zone |-> ZoneOfIndex(index, nz)]

\* CreateVirtualMachine raises errors.Error when the cloud has no VM class
\* for FLAGS.os_type; it gets that far only for a VM not taken from the pool.
ConstructRaises(num_vms, nstatic, os_ok) == ~os_ok /\ num_vms > nstatic

\* self.networks[zone] is made by the first non-static VM of the zone.
NetworksOf(vms) == {vms[i].zone : i \in {j \in 1..Len(vms) : ~vms[j].static}}

NewBenchmarkSpec(num_vms, nz, nstatic) ==
  LET vms == [i \in 1..num_vms |-> CreateVirtualMachine(i - 1, nz, nstatic)]
  IN [exists |-> TRUE, vms |-> vms, networks |-> NetworksOf(vms),
      deleted |-> FALSE, always_call_cleanup |-> FALSE]

\* ------------------------------------------------------- vm_util.RunThreaded
\* Every thread is started and joined; the call raises afterwards iff some
\* thread raised.
RunThreadedRaises(err) == err

\* --------------------------------------------------- control flow of pkb.py
PrepareStages == {STAGE_ALL, STAGE_PREPARE}
RunStages == {STAGE_ALL, STAGE_RUN}
CleanupStages == {STAGE_ALL, STAGE_CLEANUP}

\* Mutant: the spec is not pickled before DoPreparePhase.
AfterConstruct_NoPickle == "prepare"

\* What follows the construction of the spec (pkb.py line 268).
AfterConstruct == "pickle"

\* Mutant: the run phase is left out.
AfterPrepare_SkipsRun ==
  IF run_stage \in CleanupStages THEN "cleanup" ELSE "timers"

\* The statement after the prepare / load branch of the try body.
AfterPrepare ==
  IF run_stage \in RunStages THEN "run"
  ELSE IF run_stage \in CleanupStages THEN "cleanup" ELSE "timers"

AfterRun == IF run_stage \in CleanupStages THEN "cleanup" ELSE "timers"

\* Mutant: the except clause logs and does not re-raise.
ExceptClause_Swallows(e) == "none"

\* `except Exception: logging.exception(...); raise`: the same exception goes on.
ExceptClause(e) == e

\* Mutant: a try statement without the finally clause.
ThrowInTry_NoFinally(e) ==
  /\ exc' = e
  /\ pc' = "done"

\* An exception raised inside the try body: the except clause, then finally.
ThrowInTry(e) ==
  /\ exc' = ExceptClause(e)
  /\ pc' = "finally"

\* Mutant: the finally clause tears down only in the cleanup stage.
FinallyDeletes_CleanupOnly == run_stage = STAGE_CLEANUP

\* The finally clause tears the spec down in these stages.
FinallyDeletes == run_stage \in CleanupStages

\* --------------------------------------------------- BenchmarkSpec.Delete
\* Mutant: the guard without `or self.deleted`.
DeleteGuard_NoDeletedCheck == run_stage \notin {"all", "cleanup"}

\* Mutant: the guard without the run_stage test.
DeleteGuard_NoStageCheck == spec.deleted

\* Line 223: the early return.
DeleteGuard == run_stage \notin {"all", "cleanup"} \/ spec.deleted

\* Mutants: one of the three steps of Delete without its try / except.
Caught_NotVms(step) == step \in {"firewall", "network"}

Caught_NotFirewall(step) == step \in {"vms", "network"}

Caught_NotNetwork(step) == step \in {"vms", "firewall"}

\* The try / except Exception blocks of Delete: the steps whose exception is
\* caught and logged.
Caught(step) == step \in {"vms", "firewall", "network"}

\* Delete returns to its caller.
DeleteReturn == pc' = IF ret = "cleanup" THEN "timers" ELSE "done"

\* An exception leaves Delete: into the try body's handler when called by
\* DoCleanupPhase, out of RunBenchmark when called by the finally clause.
DeletePropagates(e) ==
  IF ret = "cleanup"
    THEN ThrowInTry(e)
    ELSE exc' = e /\ pc' = "done"

\* ----------------------------------------------------------------- Init
\* RunBenchmarks is not running.
SuiteIdle ==
  /\ benchmarks = <<>>
  /\ parallelism = 1
  /\ rbs_pc = "idle"
  /\ rbs_exc = "none"
  /\ samples = FALSE

\* No BenchmarkSpec is under construction step by step.
InitIdle ==
  /\ self = NoSpec
  /\ init_pc = "idle"
  /\ pool = 0
  /\ sections = <<>>
  /\ init_exc = "none"

\* No method is being called on a constructed spec outside RunBenchmark.
ObjIdle == last_op = <<"none", TRUE>>

\* No PrepareVm thread is modelled step by step.
PrepIdle == prep = <<>>

\* The loop over the scratch disks is not modelled.
ScratchIdle ==
  /\ scratch = [scratch_disk_type |-> "standard", scratch_disk |-> 0,
                present |-> FALSE, num_striped_disks |-> 1]
  /\ scratch_vms = <<>>

\* The checks of RunBenchmarks before the try statement are not modelled.
EntryIdle ==
  /\ run_uri = [given |-> FALSE, chars |-> <<>>]
  /\ requested = {}
  /\ exit_status = "running"

\* No AWS VM is modelled.
AwsIdle ==
  /\ aws_lock = 0
  /\ imported_keyfile_set = {}
  /\ deleted_keyfile_set = {}
  /\ aws_vms = <<>>
  /\ aws_cmds = <<>>

\* No provider call is modelled.
ProvIdle ==
  /\ host_map = <<>>
  /\ deleted_hosts = {}
  /\ hosts = <<>>
  /\ host_vms = <<>>
  /\ instance = <<>>
  /\ disk_vm = <<>>
  /\ pb = <<>>

ExtIdle ==
  ObjIdle /\ PrepIdle /\ ScratchIdle /\ EntryIdle /\ AwsIdle /\ ProvIdle

Init ==
  /\ run_stage \in Stages
  /\ spec = NoSpec
  /\ disk = NoSpec
  /\ pc = "start"
  /\ ret = "none"
  /\ exc = "none"
  /\ todo = {}
  /\ fanErr = FALSE
  /\ trace = <<>>
  /\ failed = {}
  /\ calls = NoCalls
  /\ errs = {}
  /\ SuiteIdle
  /\ InitIdle
  /\ ExtIdle

\* ------------------------------------------------------------ RunBenchmark
\* pkb.py line 75 and ValidateBenchmarkInfo (148-156): every key of
\* REQUIRED_INFO is in the dictionary GetInfo returned.
REQUIRED_INFO == {"scratch_disk", "num_machines"}

ValidateBenchmarkInfo(benchmark_info) == REQUIRED_INFO \subseteq benchmark_info

\* Mutant: the benchmark goes on whatever the validation says.
RB_GetInfo_NoValidation ==
  /\ pc = "start"
  /\ \E benchmark_info \in SUBSET REQUIRED_INFO :
       /\ Call("GetInfo",
               IF ValidateBenchmarkInfo(benchmark_info) THEN 1 ELSE 0, TRUE)
       /\ pc' = "prereq"
  /\ UNCHANGED <<calls, errs, run_stage, spec, disk, ret, exc, todo, fanErr>>
  /\ UNCHANGED <<suiteVars, initVars, extVars>>

\* Lines 236-238: GetInfo and ValidateBenchmarkInfo.  The keys of the
\* dictionary other than 'name' are drawn; the call is logged with 1 when
\* the dictionary is valid and 0 when it is not.
RB_GetInfo ==
  /\ pc = "start"
  /\ \E benchmark_info \in SUBSET REQUIRED_INFO :
       LET valid == IF ValidateBenchmarkInfo(benchmark_info) THEN 1 ELSE 0
       IN /\ Call("GetInfo", valid, TRUE)
          /\ pc' = IF valid = 1 THEN "prereq" ELSE "done"
  /\ UNCHANGED <<calls, errs, run_stage, spec, disk, ret, exc, todo, fanErr>>
  /\ UNCHANGED <<suiteVars, initVars, extVars>>

\* Mutant: the failure of the prerequisite check is logged and not re-raised.
RB_CheckPrerequisites_NoRaise ==
  /\ pc = "prereq"
  /\ \E ok \in BOOLEAN :
       /\ Call("CheckPrerequisites", 0, ok)
       /\ pc' = "try"
  /\ UNCHANGED <<calls, errs, run_stage, spec, disk, ret, exc, todo, fanErr>>
  /\ UNCHANGED <<suiteVars, initVars, extVars>>

\* Lines 247-253: the optional prerequisite check, outside the try statement.
RB_CheckPrerequisites ==
  /\ pc = "prereq"
  /\ \/ /\ pc' = "try"
        /\ UNCHANGED <<trace, failed, exc>>
     \/ \E ok \in BOOLEAN :
          /\ Call("CheckPrerequisites", 0, ok)
          /\ IF ok THEN pc' = "try" /\ exc' = exc
                   ELSE pc' = "done" /\ exc' = "CheckPrerequisites"
  /\ UNCHANGED <<calls, errs, run_stage, spec, disk, ret, todo, fanErr>>
  /\ UNCHANGED <<suiteVars, initVars, extVars>>

\* Line 265: spec = benchmark_spec.BenchmarkSpec(benchmark_info).
RB_Construct ==
  /\ pc = "try"
  /\ run_stage \in PrepareStages
  /\ \E num_vms \in 0..MaxVms, nz \in 1..MaxZones, nstatic \in 0..MaxStatic,
        os_ok \in BOOLEAN :
       IF ConstructRaises(num_vms, nstatic, os_ok)
         THEN /\ Call("BenchmarkSpec", 0, FALSE)
              /\ ThrowInTry("BenchmarkSpec")
              /\ spec' = spec
         ELSE /\ Call("BenchmarkSpec", 0, TRUE)
              /\ spec' = NewBenchmarkSpec(num_vms, nz, nstatic)
              /\ pc' = AfterConstruct
              /\ exc' = exc
  /\ UNCHANGED <<calls, errs, run_stage, disk, ret, todo, fanErr>>
  /\ UNCHANGED <<suiteVars, initVars, extVars>>

\* Mutant: the pickled record loses the VMs of the spec.
PickleSpec_NoVms(ok) ==
  IF ok THEN disk' = [spec EXCEPT !.vms = <<>>] ELSE disk' \in {disk, NoSpec}

\* BenchmarkSpec.PickleSpec: open(file_name, 'wb') truncates the file, then
\* pickle.dump writes the object graph.  A failure leaves the old file (open
\* failed) or no loadable record (dump failed).
PickleSpec(ok) ==
  IF ok THEN disk' = spec ELSE disk' \in {disk, NoSpec}

\* Line 268.
RB_PickleSpec ==
  /\ pc = "pickle"
  /\ \E ok \in BOOLEAN :
       /\ Call("PickleSpec", 0, ok)
       /\ PickleSpec(ok)
       /\ IF ok THEN pc' = "prepare" /\ exc' = exc
                ELSE ThrowInTry("PickleSpec")
  /\ UNCHANGED <<calls, errs, run_stage, spec, ret, todo, fanErr>>
  /\ UNCHANGED <<suiteVars, initVars, extVars>>

\* Mutant: the load keeps the pickled value of deleted.
GetSpecFromFile_KeepsDeleted == disk

\* Mutant: the load loses the VMs of the pickled spec.
GetSpecFromFile_NoVms == [disk EXCEPT !.deleted = FALSE, !.vms = <<>>]

\* Mutant: the load loses the network handles of the pickled spec.
GetSpecFromFile_NoNetworks == [disk EXCEPT !.deleted = FALSE, !.networks = {}]

\* Line 271 and BenchmarkSpec.GetSpecFromFile: pickle.load, then deleted = False.
GetSpecFromFile == [disk EXCEPT !.deleted = FALSE]

RB_GetSpecFromFile ==
  /\ pc = "try"
  /\ run_stage \notin PrepareStages
  /\ \E ok \in BOOLEAN :
       /\ ~disk.exists => ~ok
       /\ Call("GetSpecFromFile", 0, ok)
       /\ IF ok THEN /\ spec' = GetSpecFromFile
                     /\ pc' = AfterPrepare
                     /\ exc' = exc
                ELSE /\ spec' = spec
                     /\ ThrowInTry("GetSpecFromFile")
  /\ UNCHANGED <<calls, errs, run_stage, disk, ret, todo, fanErr>>
  /\ UNCHANGED <<suiteVars, initVars, extVars>>

\* ------------------------------------------------- BenchmarkSpec.Prepare
\* Line 216-218: the VM fan-out, or straight to the benchmark's Prepare.
GoPrepareVms ==
  IF spec.vms # <<>>
    THEN todo' = 1..Len(spec.vms) /\ pc' = "P_vms"
    ELSE todo' = {} /\ pc' = "bprepare"

\* Line 185 (DoPreparePhase) and lines 213-215: spec.Prepare() starts.
SP_Enter ==
  /\ pc = "prepare"
  /\ Call("spec.Prepare", 0, TRUE)
  /\ fanErr' = FALSE
  /\ IF spec.networks # {}
       THEN todo' = spec.networks /\ pc' = "P_net"
       ELSE GoPrepareVms
  /\ UNCHANGED <<calls, errs, run_stage, spec, disk, ret, exc>>
  /\ UNCHANGED <<suiteVars, initVars, extVars>>

\* PrepareNetwork in one thread of RunThreaded: network.Create().  The last
\* thread to finish ends the fan-out.
SP_PrepareNetwork ==
  /\ pc = "P_net"
  /\ \E z \in todo, ok \in BOOLEAN :
       /\ RCall("network.Create", z, ok)
       /\ IF todo = {z}
            THEN IF RunThreadedRaises(fanErr \/ ~ok)
                   THEN /\ ThrowInTry("spec.Prepare")
                        /\ failed' = failed \cup Positions("spec.Prepare")
                        /\ todo' = {}
                        /\ fanErr' = FALSE
                   ELSE /\ GoPrepareVms
                        /\ failed' = failed
                        /\ fanErr' = FALSE
                        /\ exc' = exc
            ELSE /\ todo' = todo \ {z}
                 /\ failed' = failed
                 /\ fanErr' = (fanErr \/ ~ok)
                 /\ pc' = pc
                 /\ exc' = exc
  /\ UNCHANGED <<trace, run_stage, spec, disk, ret>>
  /\ UNCHANGED <<suiteVars, initVars, extVars>>

\* Mutant: the exception of a PrepareVm thread is dropped by the fan-out.
SP_PrepareVm_DropsFailure ==
  /\ pc = "P_vms"
  /\ \E i \in todo, ok \in BOOLEAN :
       /\ RCall("vm.Create", i, ok)
       /\ IF todo = {i}
            THEN todo' = {} /\ pc' = "bprepare"
            ELSE todo' = todo \ {i} /\ pc' = pc
  /\ UNCHANGED <<trace, failed, fanErr, exc, run_stage, spec, disk, ret>>
  /\ UNCHANGED <<suiteVars, initVars, extVars>>

\* PrepareVm in one thread of RunThreaded: vm.Create() and the rest of the
\* VM's pipeline, any step of which may raise.
SP_PrepareVm ==
  /\ pc = "P_vms"
  /\ \E i \in todo, ok \in BOOLEAN :
       /\ RCall("vm.Create", i, ok)
       /\ IF todo = {i}
            THEN /\ todo' = {}
                 /\ fanErr' = FALSE
                 /\ IF RunThreadedRaises(fanErr \/ ~ok)
                      THEN /\ ThrowInTry("spec.Prepare")
                           /\ failed' = failed \cup Positions("spec.Prepare")
                      ELSE /\ pc' = "bprepare"
                           /\ exc' = exc
                           /\ failed' = failed
            ELSE /\ todo' = todo \ {i}
                 /\ failed' = failed
                 /\ fanErr' = (fanErr \/ ~ok)
                 /\ pc' = pc
                 /\ exc' = exc
  /\ UNCHANGED <<trace, run_stage, spec, disk, ret>>
  /\ UNCHANGED <<suiteVars, initVars, extVars>>

\* Line 187 (DoPreparePhase): benchmark.Prepare(spec).  The hook may set
\* spec.always_call_cleanup before it returns or raises.
RB_BenchmarkPrepare ==
  /\ pc = "bprepare"
  /\ \E acc \in BOOLEAN, ok \in BOOLEAN :
       /\ Call("benchmark.Prepare", 0, ok)
       /\ spec' = [spec EXCEPT !.always_call_cleanup = acc]
       /\ IF ok THEN pc' = AfterPrepare /\ exc' = exc
                ELSE ThrowInTry("benchmark.Prepare")
  /\ UNCHANGED <<calls, errs, run_stage, disk, ret, todo, fanErr>>
  /\ UNCHANGED <<suiteVars, initVars, extVars>>

\* ------------------------------------------------------------- DoRunPhase
HooksCalled == Cardinality(Positions("before_run_hook"))

\* Lines 202-203: the next hook of BEFORE_RUN_HOOKS.
RB_BeforeRunHook ==
  /\ pc = "run"
  /\ HooksCalled < MaxHooks
  /\ \E ok \in BOOLEAN :
       /\ Call("before_run_hook", HooksCalled + 1, ok)
       /\ IF ok THEN pc' = pc /\ exc' = exc
                ELSE ThrowInTry("before_run_hook")
  /\ UNCHANGED <<calls, errs, run_stage, spec, disk, ret, todo, fanErr>>
  /\ UNCHANGED <<suiteVars, initVars, extVars>>

\* Lines 204-205: no hook is left; benchmark.Run(spec).
RB_BenchmarkRun ==
  /\ pc = "run"
  /\ \E ok \in BOOLEAN :
       /\ Call("benchmark.Run", 0, ok)
       /\ IF ok THEN pc' = "samples" /\ exc' = exc
                ELSE ThrowInTry("benchmark.Run")
  /\ UNCHANGED <<calls, errs, run_stage, spec, disk, ret, todo, fanErr>>
  /\ UNCHANGED <<suiteVars, initVars, extVars>>

\* Line 206: collector.AddSamples(samples, name, spec).
RB_AddSamples ==
  /\ pc = "samples"
  /\ \E ok \in BOOLEAN :
       /\ Call("collector.AddSamples", 0, ok)
       /\ IF ok THEN pc' = AfterRun /\ exc' = exc
                ELSE ThrowInTry("collector.AddSamples")
  /\ UNCHANGED <<calls, errs, run_stage, spec, disk, ret, todo, fanErr>>
  /\ UNCHANGED <<suiteVars, initVars, extVars>>

\* --------------------------------------------------------- DoCleanupPhase
\* Line 221: benchmark.Cleanup(spec); line 223 then calls spec.Delete().
RB_BenchmarkCleanup ==
  /\ pc = "cleanup"
  /\ \E ok \in BOOLEAN :
       /\ Call("benchmark.Cleanup", 0, ok)
       /\ IF ok THEN pc' = "D_enter" /\ ret' = "cleanup" /\ exc' = exc
                ELSE ThrowInTry("benchmark.Cleanup") /\ ret' = ret
  /\ UNCHANGED <<calls, errs, run_stage, spec, disk, todo, fanErr>>
  /\ UNCHANGED <<suiteVars, initVars, extVars>>

\* --------------------------------------------------- BenchmarkSpec.Delete
\* Lines 223-226: the guard, then the VM fan-out if there are VMs.
D_Enter ==
  /\ pc = "D_enter"
  /\ Call("spec.Delete", 0, TRUE)
  /\ fanErr' = FALSE
  /\ IF DeleteGuard
       THEN DeleteReturn /\ todo' = {}
       ELSE IF spec.vms # <<>>
              THEN todo' = 1..Len(spec.vms) /\ pc' = "D_vms"
              ELSE todo' = {} /\ pc' = "D_fw"
  /\ UNCHANGED <<calls, errs, run_stage, spec, disk, ret, exc>>
  /\ UNCHANGED <<suiteVars, initVars, extVars>>

\* Mutant: the firewall step starts as soon as one DeleteVm thread has ended.
D_DeleteVm_NoJoin ==
  /\ pc = "D_vms"
  /\ \E i \in todo, ok \in BOOLEAN :
       /\ RCall("DeleteVm", i, ok)
       /\ todo' = {}
       /\ pc' = "D_fw"
  /\ UNCHANGED <<trace, failed, fanErr, exc, run_stage, spec, disk, ret>>
  /\ UNCHANGED <<suiteVars, initVars, extVars>>

\* Line 228 and DeleteVm in one thread of RunThreaded.  The last thread to
\* finish ends the fan-out; lines 229-231 catch what RunThreaded raises.
D_DeleteVm ==
  /\ pc = "D_vms"
  /\ \E i \in todo, ok \in BOOLEAN :
       /\ RCall("DeleteVm", i, ok)
       /\ IF todo = {i}
            THEN /\ todo' = {}
                 /\ fanErr' = FALSE
                 /\ IF RunThreadedRaises(fanErr \/ ~ok) /\ ~Caught("vms")
                      THEN DeletePropagates("DeleteVm")
                      ELSE pc' = "D_fw" /\ exc' = exc
            ELSE /\ todo' = todo \ {i}
                 /\ fanErr' = (fanErr \/ ~ok)
                 /\ pc' = pc
                 /\ exc' = exc
  /\ UNCHANGED <<trace, failed, run_stage, spec, disk, ret>>
  /\ UNCHANGED <<suiteVars, initVars, extVars>>

\* Lines 232-236: firewall.DisallowAllPorts(), then the loop over networks.
D_Firewall ==
  /\ pc = "D_fw"
  /\ \E ok \in BOOLEAN :
       /\ RCall("firewall.DisallowAllPorts", 0, ok)
       /\ IF ~ok /\ ~Caught("firewall")
            THEN DeletePropagates("firewall.DisallowAllPorts") /\ todo' = {}
            ELSE /\ exc' = exc
                 /\ todo' = spec.networks
                 /\ pc' = IF spec.networks # {} THEN "D_net" ELSE "D_set"
  /\ UNCHANGED <<trace, failed, run_stage, spec, disk, ret, fanErr>>
  /\ UNCHANGED <<suiteVars, initVars, extVars>>

\* Mutant: the loop over the networks ends after its first iteration.
D_Network_FirstOnly ==
  /\ pc = "D_net"
  /\ \E z \in todo, ok \in BOOLEAN :
       /\ RCall("network.Delete", z, ok)
       /\ todo' = {}
       /\ pc' = "D_set"
  /\ UNCHANGED <<trace, failed, fanErr, exc, run_stage, spec, disk, ret>>
  /\ UNCHANGED <<suiteVars, initVars, extVars>>

\* Lines 237-242: one iteration of `for zone in self.networks` (a dict: the
\* order of the zones is not fixed by the code).
D_Network ==
  /\ pc = "D_net"
  /\ \E z \in todo, ok \in BOOLEAN :
       /\ RCall("network.Delete", z, ok)
       /\ IF ~ok /\ ~Caught("network")
            THEN DeletePropagates("network.Delete") /\ todo' = {}
            ELSE /\ exc' = exc
                 /\ todo' = todo \ {z}
                 /\ pc' = IF todo = {z} THEN "D_set" ELSE pc
  /\ UNCHANGED <<trace, failed, run_stage, spec, disk, ret, fanErr>>
  /\ UNCHANGED <<suiteVars, initVars, extVars>>

\* Line 243: self.deleted = True, and Delete returns.
D_SetDeleted ==
  /\ pc = "D_set"
  /\ spec' = [spec EXCEPT !.deleted = TRUE]
  /\ DeleteReturn
  /\ UNCHANGED <<calls, errs, run_stage, disk, ret, exc, todo, fanErr, trace, failed>>
  /\ UNCHANGED <<suiteVars, initVars, extVars>>

\* ------------------------------------------------- RunBenchmark, the exit
\* Lines 279-291: the timers' samples are added; the try body ends.
RB_TimerSamples ==
  /\ pc = "timers"
  /\ \E ok \in BOOLEAN :
       /\ Call("collector.AddSamples", 1, ok)
       /\ IF ok THEN pc' = "finally" /\ exc' = exc
                ELSE ThrowInTry("collector.AddSamples")
  /\ UNCHANGED <<calls, errs, run_stage, spec, disk, ret, todo, fanErr>>
  /\ UNCHANGED <<suiteVars, initVars, extVars>>

\* Mutant: the exit path pickles the spec only when no exception is on its
\* way out.
RB_Finally_PickleOnReturnOnly ==
  /\ pc = "finally"
  /\ IF FinallyDeletes
       THEN /\ IF spec.exists
                 THEN pc' = "D_enter" /\ ret' = "finally"
                 ELSE pc' = "done" /\ ret' = ret
            /\ UNCHANGED <<disk, exc, trace, failed>>
       ELSE /\ ret' = ret
            /\ pc' = "done"
            /\ IF exc # "none"
                 THEN UNCHANGED <<disk, exc, trace, failed>>
                 ELSE IF ~spec.exists
                   THEN /\ exc' = "AttributeError"
                        /\ UNCHANGED <<disk, trace, failed>>
                   ELSE \E ok \in BOOLEAN :
                          /\ Call("PickleSpec", 0, ok)
                          /\ PickleSpec(ok)
                          /\ exc' = IF ok THEN exc ELSE "PickleSpec"
  /\ UNCHANGED <<calls, errs, run_stage, spec, todo, fanErr>>
  /\ UNCHANGED <<suiteVars, initVars, extVars>>

\* Lines 298-303: the finally clause.  spec.PickleSpec() on None raises
\* AttributeError, which replaces the exception on its way out.
RB_Finally ==
  /\ pc = "finally"
  /\ IF FinallyDeletes
       THEN /\ IF spec.exists
                 THEN pc' = "D_enter" /\ ret' = "finally"
                 ELSE pc' = "done" /\ ret' = ret
            /\ UNCHANGED <<disk, exc, trace, failed>>
       ELSE /\ ret' = ret
            /\ pc' = "done"
            /\ IF ~spec.exists
                 THEN /\ exc' = "AttributeError"
                      /\ UNCHANGED <<disk, trace, failed>>
                 ELSE \E ok \in BOOLEAN :
                        /\ Call("PickleSpec", 0, ok)
                        /\ PickleSpec(ok)
                        /\ exc' = IF ok THEN exc ELSE "PickleSpec"
  /\ UNCHANGED <<calls, errs, run_stage, spec, todo, fanErr>>
  /\ UNCHANGED <<suiteVars, initVars, extVars>>

\* A later process invocation with the same run_uri: a new RunBenchmark of
\* the same benchmark, any run_stage, the temp directory as it was left.
Invoke ==
  /\ pc = "done"
  /\ run_stage' \in Stages
  /\ spec' = NoSpec
  /\ pc' = "start"
  /\ ret' = "none"
  /\ exc' = "none"
  /\ todo' = {}
  /\ fanErr' = FALSE
  /\ trace' = <<>>
  /\ failed' = {}
  /\ calls' = NoCalls
  /\ errs' = {}
  /\ UNCHANGED disk
  /\ UNCHANGED <<suiteVars, initVars, extVars>>

Next ==
  \/ RB_GetInfo
  \/ RB_CheckPrerequisites
  \/ RB_Construct
  \/ RB_PickleSpec
  \/ RB_GetSpecFromFile
  \/ SP_Enter
  \/ SP_PrepareNetwork
  \/ SP_PrepareVm
  \/ RB_BenchmarkPrepare
  \/ RB_BeforeRunHook
  \/ RB_BenchmarkRun
  \/ RB_AddSamples
  \/ RB_BenchmarkCleanup
  \/ D_Enter
  \/ D_DeleteVm
  \/ D_Firewall
  \/ D_Network
  \/ D_SetDeleted
  \/ RB_TimerSamples
  \/ RB_Finally
  \/ Invoke

Spec == Init /\ [][Next]_vars

\* ------------------------------------------------------ staged execution
\* One run either as a single run_stage=all invocation or as the successive
\* invocations prepare, run, cleanup with the same run_uri (module docstring
\* of pkb.py).  Under SpecStaged, trace, failed, calls and errs are the log
\* of the whole run: the next invocation appends to what the earlier ones
\* logged.
InitStaged ==
  /\ Init
  /\ run_stage \in PrepareStages

NextStageOf(stage) == IF stage = STAGE_PREPARE THEN STAGE_RUN ELSE STAGE_CLEANUP

\* The invocation of the next stage, started after the previous one returned.
InvokeNextStage ==
  /\ pc = "done"
  /\ exc = "none"
  /\ run_stage \in {STAGE_PREPARE, STAGE_RUN}
  /\ run_stage' = NextStageOf(run_stage)
  /\ spec' = NoSpec
  /\ pc' = "start"
  /\ ret' = "none"
  /\ todo' = {}
  /\ fanErr' = FALSE
  /\ UNCHANGED <<exc, disk, trace, failed, calls, errs>>
  /\ UNCHANGED <<suiteVars, initVars, extVars>>

NextStaged ==
  \/ RB_GetInfo
  \/ RB_CheckPrerequisites
  \/ RB_Construct
  \/ RB_PickleSpec
  \/ RB_GetSpecFromFile
  \/ SP_Enter
  \/ SP_PrepareNetwork
  \/ SP_PrepareVm
  \/ RB_BenchmarkPrepare
  \/ RB_BeforeRunHook
  \/ RB_BenchmarkRun
  \/ RB_AddSamples
  \/ RB_BenchmarkCleanup
  \/ D_Enter
  \/ D_DeleteVm
  \/ D_Firewall
  \/ D_Network
  \/ D_SetDeleted
  \/ RB_TimerSamples
  \/ RB_Finally
  \/ InvokeNextStage

SpecStaged == InitStaged /\ [][NextStaged]_vars

\* ------------------------------------------- the spec's methods, directly
\* BenchmarkSpec.Delete and BenchmarkSpec.PickleSpec are public methods: a
\* caller that holds a spec in the state a RunBenchmark that returned has
\* brought it to (a test, a tool of the same run_uri) may call them itself
\* before the next invocation; after a RunBenchmark that raised the process
\* is over.  The direct calls are logged as "direct" (1: Delete,
\* 2: PickleSpec).
DirectCalls == Cardinality(Positions("direct"))

\* spec.Delete() called directly: lines 222-243 run as in RunBenchmark.
Direct_Delete ==
  /\ pc = "done"
  /\ spec.exists
  /\ exc = "none"
  /\ DirectCalls < MaxDirectCalls
  /\ Call("direct", 1, TRUE)
  /\ pc' = "D_enter"
  /\ ret' = "direct"
  /\ UNCHANGED <<calls, errs, run_stage, spec, disk, exc, todo, fanErr>>
  /\ UNCHANGED <<suiteVars, initVars, extVars>>

\* spec.PickleSpec() called directly: lines 349-352.
Direct_PickleSpec ==
  /\ pc = "done"
  /\ spec.exists
  /\ exc = "none"
  /\ DirectCalls < MaxDirectCalls
  /\ \E ok \in BOOLEAN :
       /\ Call("direct", 2, ok)
       /\ PickleSpec(ok)
  /\ UNCHANGED <<calls, errs, run_stage, spec, pc, ret, exc, todo, fanErr>>
  /\ UNCHANGED <<suiteVars, initVars, extVars>>

NextDirect ==
  \/ Next
  \/ Direct_Delete
  \/ Direct_PickleSpec

SpecDirect == Init /\ [][NextDirect]_vars

\* ----------------------------------------------------------- RunBenchmarks
\* No RunBenchmark is modelled step by step.
LifeIdle ==
  /\ run_stage = STAGE_ALL
  /\ spec = NoSpec
  /\ disk = NoSpec
  /\ pc = "idle"
  /\ ret = "none"
  /\ exc = "none"
  /\ todo = {}
  /\ fanErr = FALSE
  /\ trace = <<>>
  /\ failed = {}
  /\ calls = NoCalls
  /\ errs = {}

\* RunBenchmarks at its try statement (line 360), with the benchmarks the
\* flags select and FLAGS.parallelism.  Each RunBenchmark is one call that
\* returns or raises and may have added samples to the collector.
InitSuite ==
  /\ LifeIdle
  /\ InitIdle
  /\ ExtIdle
  /\ \E total_benchmarks \in 0..MaxBenchmarks :
       benchmarks = [i \in 1..total_benchmarks |-> "scheduled"]
  /\ parallelism \in 1..MaxParallelism
  /\ rbs_pc = "try"
  /\ rbs_exc = "none"
  /\ samples = FALSE

BenchmarksIn(status) == {i \in 1..Len(benchmarks) : benchmarks[i] = status}

\* How a RunBenchmark ends: it returns, or it raises; "unsupported" is the
\* RunBenchmark whose spec construction raised the errors.Error of
\* benchmark_spec.py line 264 (the cloud has no VM class for FLAGS.os_type),
\* "raised" any other exception.
Outcomes == {"returned", "raised", "unsupported"}

Failures == {"raised", "unsupported"}

BenchmarksFailed == {i \in 1..Len(benchmarks) : benchmarks[i] \in Failures}

\* Lines 361-363 and 371: the list is read, the branch on parallelism taken.
RBS_GetBenchmarksFromFlags ==
  /\ rbs_pc = "try"
  /\ rbs_pc' = IF parallelism > 1 THEN "threaded" ELSE "loop"
  /\ UNCHANGED <<benchmarks, parallelism, rbs_exc, samples>>
  /\ UNCHANGED <<lifeVars, initVars, extVars>>

\* Lines 373-374: the for loop calls RunBenchmark for the next benchmark.
RBS_LoopCall ==
  /\ rbs_pc = "loop"
  /\ BenchmarksIn("running") = {}
  /\ \E i \in BenchmarksIn("scheduled") :
       /\ \A j \in BenchmarksIn("scheduled") : i <= j
       /\ benchmarks' = [benchmarks EXCEPT ![i] = "running"]
  /\ UNCHANGED <<parallelism, rbs_pc, rbs_exc, samples>>
  /\ UNCHANGED <<lifeVars, initVars, extVars>>

\* The RunBenchmark called by the loop ends.  The loop has no handler: an
\* exception leaves it for the finally clause.
RBS_LoopCallEnds ==
  /\ rbs_pc = "loop"
  /\ \E i \in BenchmarksIn("running"), outcome \in Outcomes, added \in BOOLEAN :
       /\ samples' = (samples \/ added)
       /\ benchmarks' = [benchmarks EXCEPT ![i] = outcome]
       /\ IF outcome \notin Failures
            THEN UNCHANGED <<rbs_pc, rbs_exc>>
            ELSE /\ rbs_exc' = "RunBenchmark"
                 /\ rbs_pc' = "finally"
  /\ UNCHANGED parallelism
  /\ UNCHANGED <<lifeVars, initVars, extVars>>

\* The for loop is exhausted.
RBS_LoopExhausted ==
  /\ rbs_pc = "loop"
  /\ BenchmarksIn("scheduled") = {} /\ BenchmarksIn("running") = {}
  /\ rbs_pc' = "finally"
  /\ UNCHANGED <<benchmarks, parallelism, rbs_exc, samples>>
  /\ UNCHANGED <<lifeVars, initVars, extVars>>

\* Lines 368-370, vm_util.RunThreaded: a thread is started for a benchmark
\* while fewer than max_concurrent_threads are running.
RBS_ThreadStart ==
  /\ rbs_pc = "threaded"
  /\ Cardinality(BenchmarksIn("running")) < parallelism
  /\ \E i \in BenchmarksIn("scheduled") :
       benchmarks' = [benchmarks EXCEPT ![i] = "running"]
  /\ UNCHANGED <<parallelism, rbs_pc, rbs_exc, samples>>
  /\ UNCHANGED <<lifeVars, initVars, extVars>>

\* The RunBenchmark of a thread ends; RunThreaded keeps its exception.
RBS_ThreadEnds ==
  /\ rbs_pc = "threaded"
  /\ \E i \in BenchmarksIn("running"), outcome \in Outcomes, added \in BOOLEAN :
       /\ samples' = (samples \/ added)
       /\ benchmarks' = [benchmarks EXCEPT ![i] = outcome]
  /\ UNCHANGED <<parallelism, rbs_pc, rbs_exc>>
  /\ UNCHANGED <<lifeVars, initVars, extVars>>

\* Every thread was started and has ended: RunThreaded returns or raises.
RBS_ThreadsJoined ==
  /\ rbs_pc = "threaded"
  /\ BenchmarksIn("scheduled") = {} /\ BenchmarksIn("running") = {}
  /\ rbs_exc' = IF RunThreadedRaises(BenchmarksFailed # {})
                  THEN "ThreadException" ELSE rbs_exc
  /\ rbs_pc' = "finally"
  /\ UNCHANGED <<benchmarks, parallelism, samples>>
  /\ UNCHANGED <<lifeVars, initVars, extVars>>

\* Lines 375-377: the finally clause publishes the collected samples.
RBS_Finally ==
  /\ rbs_pc = "finally"
  /\ rbs_pc' = "done"
  /\ IF samples
       THEN \E ok \in BOOLEAN :
              rbs_exc' = IF ok THEN rbs_exc ELSE "PublishSamples"
       ELSE rbs_exc' = rbs_exc
  /\ UNCHANGED <<benchmarks, parallelism, samples>>
  /\ UNCHANGED <<lifeVars, initVars, extVars>>

NextSuite ==
  \/ RBS_GetBenchmarksFromFlags
  \/ RBS_LoopCall
  \/ RBS_LoopCallEnds
  \/ RBS_LoopExhausted
  \/ RBS_ThreadStart
  \/ RBS_ThreadEnds
  \/ RBS_ThreadsJoined
  \/ RBS_Finally

SpecSuite == InitSuite /\ [][NextSuite]_vars

\* --------------------------------------- RunBenchmarks, before the benchmarks
\* A string is the sequence of its characters.  "a", "0", "9", "f" stand for
\* the letters and digits, "-" and "_" for the other characters.
AlnumChars == {"a", "0", "9", "f"}

\* The characters of the run_uri given on the command line.
UriChars == {"a", "-"}

MaxUriLen == 11

\* pkb.py line 144.
MAX_RUN_URI_LENGTH == 10

\* str.isalnum(): at least one character, and every character a letter or
\* a digit.
IsAlnum(str) == str # <<>> /\ \A i \in 1..Len(str) : str[i] \in AlnumChars

\* Line 325: str(uuid.uuid4())[-8:].  The text of a UUID ends with twelve
\* hexadecimal digits; the tail keeps the last UUID_TAIL of them.
UUID_TAIL == 8

HexDigits == {"0", "9", "a", "f"}

Uuid4Text == {[i \in 1..12 |-> d] : d \in HexDigits}

LastChars(str, n) == [i \in 1..n |-> str[Len(str) - n + i]]

\* ListUnknownBenchmarks (lines 159-167): the names asked for that are
\* neither a benchmark nor a benchmark set.
BenchmarkNames == {"iperf"}

BenchmarkSets == {"standard_set"}

ListUnknownBenchmarks(specified) == (specified \ BenchmarkNames) \ BenchmarkSets

\* RunBenchmarks at line 319 (FLAGS.version is not set), under any
\* run_stage; the flags are drawn where the function reads them.
InitMain ==
  /\ run_stage \in Stages
  /\ spec = NoSpec
  /\ disk = NoSpec
  /\ pc = "idle"
  /\ ret = "none"
  /\ exc = "none"
  /\ todo = {}
  /\ fanErr = FALSE
  /\ trace = <<>>
  /\ failed = {}
  /\ calls = NoCalls
  /\ errs = {}
  /\ InitIdle
  /\ ExtIdle
  /\ \E total_benchmarks \in 0..MaxBenchmarks :
       benchmarks = [i \in 1..total_benchmarks |-> "scheduled"]
  /\ parallelism \in 1..MaxParallelism
  /\ rbs_pc = "run_uri"
  /\ rbs_exc = "none"
  /\ samples = FALSE

\* Mutant: the length of a given run_uri is not looked at.
RunUriRejected_NoLength(uri) == ~IsAlnum(uri)

\* Line 326: the test on a run_uri that was given.
RunUriRejected(uri) == ~IsAlnum(uri) \/ Len(uri) > MAX_RUN_URI_LENGTH

\* Lines 319-329: FLAGS.run_uri is checked, or generated when it was not
\* given and the stage allows it.
E_RunUri ==
  /\ rbs_pc = "run_uri"
  /\ \/ /\ run_stage \notin {STAGE_ALL, STAGE_PREPARE}
        /\ run_uri' = run_uri
        /\ exit_status' = "1"
        /\ rbs_pc' = "done"
     \/ /\ run_stage \in {STAGE_ALL, STAGE_PREPARE}
        /\ \E text \in Uuid4Text :
             run_uri' = [given |-> FALSE, chars |-> LastChars(text, UUID_TAIL)]
        /\ exit_status' = exit_status
        /\ rbs_pc' = "unknown"
     \/ \E n \in 0..MaxUriLen :
          \E uri \in [1..n -> UriChars] :
            /\ run_uri' = [given |-> TRUE, chars |-> uri]
            /\ IF RunUriRejected(uri)
                 THEN exit_status' = "1" /\ rbs_pc' = "done"
                 ELSE exit_status' = exit_status /\ rbs_pc' = "unknown"
  /\ UNCHANGED <<requested, benchmarks, parallelism, rbs_exc, samples>>
  /\ UNCHANGED <<lifeVars, initVars, objVars, prepVars, scratchVars, awsVars,
                 provVars>>

\* Lines 337-341: unknown benchmark names end RunBenchmarks with status 1.
E_ListUnknownBenchmarks ==
  /\ rbs_pc = "unknown"
  /\ \E specified \in SUBSET (BenchmarkNames \cup BenchmarkSets \cup {"nope"}) :
       /\ requested' = specified
       /\ IF ListUnknownBenchmarks(specified) # {}
            THEN exit_status' = "1" /\ rbs_pc' = "done"
            ELSE exit_status' = exit_status /\ rbs_pc' = "try"
  /\ UNCHANGED <<run_uri, benchmarks, parallelism, rbs_exc, samples>>
  /\ UNCHANGED <<lifeVars, initVars, objVars, prepVars, scratchVars, awsVars,
                 provVars>>

\* Lines 378-380: the function ends without a return statement.
E_Return ==
  /\ rbs_pc = "done"
  /\ exit_status = "running"
  /\ rbs_exc = "none"
  /\ exit_status' = "None"
  /\ UNCHANGED <<run_uri, requested, suiteVars>>
  /\ UNCHANGED <<lifeVars, initVars, objVars, prepVars, scratchVars, awsVars,
                 provVars>>

NextMain ==
  \/ E_RunUri
  \/ E_ListUnknownBenchmarks
  \/ NextSuite
  \/ E_Return

SpecMain == InitMain /\ [][NextMain]_vars

\* ------------------------------------- BenchmarkSpec.__init__, step by step
\* Lines 139-141: self.vms = [], self.vm_dict = {'default': []},
\* self.networks = {}.  `config` is hasattr(self, 'config'); the groups of
\* vm_dict are 0 for 'default' and s for the node of section s; networks is
\* a function from zones to handles; `comp` is the list the comprehension
\* of lines 183-186 is building; `exists` tells the object from None and
\* `deleted` is the attribute line 208 sets to False.  `image` and
\* `machine_type` are the lists of lines 151-152, which only the config path
\* fills.
NewSelf(config) ==
  [config |-> config, vms |-> <<>>, vm_dict |-> [g \in {0} |-> <<>>],
   networks |-> <<>>, zones |-> <<>>, num_vms |-> 0, comp |-> <<>>,
   exists |-> TRUE, deleted |-> FALSE, image |-> <<>>, machine_type |-> <<>>]

\* A network handle: network_class(zone), made by the flag path (by = 0) or
\* by the thread of section `by`.
Handle(zone, by) == [zone |-> zone, by |-> by]

\* Mutant: storing a handle drops the handles of the other zones.
WithNetwork_DropsOthers(networks, zone, by) ==
  [z \in {zone} |-> Handle(zone, by)]

\* self.networks[zone] = network_class(zone).
WithNetwork(networks, zone, by) ==
  [z \in DOMAIN networks \cup {zone} |->
     IF z = zone THEN Handle(zone, by) ELSE networks[z]]

\* Mutant: the zones are taken in turn, wrapping around.
ZonePosition_Wraps(index, nz) == (index % nz) + 1

\* Line 185: the position in self.zones of the zone of the VM at `index`.
ZonePosition(index, nz) == ZoneOfIndex(index, nz)

\* Line 299-300: CLASSES[self.cloud][VIRTUAL_MACHINE] is the dictionary of
\* the cloud's VM classes by os_type, not a class: calling it raises
\* TypeError, which happens once for every VM the section counts.
NodeVmClassRaises(count) == count > 0

\* The thread that runs CreateVirtualMachineFromNodeSection on a node
\* section: its position and its locals `zone`, `self.networks[zone]` (as
\* read at line 298) and `vms`, with the section's 'image' and 'vm_type'
\* options.  The options of the section are drawn where the thread first
\* reads them.  `lists` tells whether the thread's statements on the two
\* reporting lists, self.image and self.machine_type (lines 286-289), are
\* followed: they touch nothing else, and the step-by-step specification of
\* __init__ leaves them out.
NewSection ==
  [pc |-> "new", z |-> 0, image |-> "none", vm_type |-> "none",
   net |-> Handle(0, 0), vms |-> <<>>, lists |-> FALSE]

\* The values of the 'image' and 'vm_type' options of the node sections.
Images == {"image-a", "image-b"}

MachineTypes == {"type-a", "type-b"}

InitConstruct ==
  /\ LifeIdle
  /\ SuiteIdle
  /\ ExtIdle
  /\ \E config \in BOOLEAN :
       /\ self = NewSelf(config)
       /\ IF config
            THEN \E n \in 1..MaxSections : sections = [s \in 1..n |-> NewSection]
            ELSE sections = <<>>
  /\ init_pc = "start"
  /\ pool \in 0..MaxStatic
  /\ init_exc = "none"

\* Lines 163-181: the flag path reads the zones and the number of VMs.
I_Flags ==
  /\ init_pc = "start"
  /\ ~self.config
  /\ \E nz \in 1..MaxZones, n \in 0..MaxInitVms :
       \E zones \in [1..nz -> 1..MaxZones] :
         self' = [self EXCEPT !.zones = zones, !.num_vms = n]
  /\ init_pc' = "create"
  /\ UNCHANGED <<pool, sections, init_exc>>
  /\ UNCHANGED <<lifeVars, suiteVars, extVars>>

\* Lines 183-186 and CreateVirtualMachine (249-274) for the next index: a
\* VM of the static pool while it lasts; otherwise errors.Error when the
\* cloud has no class for FLAGS.os_type, or the zone's network handle (made
\* now if the zone has none) and a VM of the cloud's class.
I_CreateVirtualMachine ==
  /\ init_pc = "create"
  /\ Len(self.comp) < self.num_vms
  /\ LET index == Len(self.comp)
         opt_zone == self.zones[ZonePosition(index, Len(self.zones))]
     IN IF pool > 0
          THEN /\ pool' = pool - 1
               /\ self' = [self EXCEPT !.comp = Append(@,
                             [id |-> index + 1, static |-> TRUE, zone |-> 0,
                              network |-> Handle(0, 0)])]
               /\ UNCHANGED <<init_pc, init_exc>>
          ELSE \E os_ok \in BOOLEAN :
                 /\ ~os_ok => \A k \in 1..index : self.comp[k].static
                 /\ pool' = pool
                 /\ IF ~os_ok
                      THEN /\ init_exc' = "errors.Error"
                           /\ init_pc' = "raised"
                           /\ self' = self
                      ELSE LET networks ==
                                 IF opt_zone \in DOMAIN self.networks
                                   THEN self.networks
                                   ELSE WithNetwork(self.networks, opt_zone, 0)
                           IN /\ self' = [self EXCEPT
                                   !.networks = networks,
                                   !.comp = Append(@,
                                     [id |-> index + 1, static |-> FALSE,
                                      zone |-> opt_zone,
                                      network |-> networks[opt_zone]])]
                              /\ UNCHANGED <<init_pc, init_exc>>
  /\ UNCHANGED sections
  /\ UNCHANGED <<lifeVars, suiteVars, extVars>>

\* Mutant: line 187 is left out.
I_FlagsFinish_NoDefaultGroup ==
  /\ init_pc = "create"
  /\ Len(self.comp) = self.num_vms
  /\ self' = [self EXCEPT !.vms = self.comp]
  /\ init_pc' = "done"
  /\ UNCHANGED <<pool, sections, init_exc>>
  /\ UNCHANGED <<lifeVars, suiteVars, extVars>>

\* Lines 183 and 187: the finished list becomes self.vms and
\* self.vm_dict['default']; the rest of __init__ makes no VM.
I_FlagsFinish ==
  /\ init_pc = "create"
  /\ Len(self.comp) = self.num_vms
  /\ self' = [self EXCEPT !.vms = self.comp, !.vm_dict[0] = self.comp]
  /\ init_pc' = "done"
  /\ UNCHANGED <<pool, sections, init_exc>>
  /\ UNCHANGED <<lifeVars, suiteVars, extVars>>

\* Lines 143-156: the config path reads the cluster section, gives every
\* node a group in vm_dict and hands the sections to RunThreaded.
I_Config ==
  /\ init_pc = "start"
  /\ self.config
  /\ \E cluster_zone \in 1..MaxZones :
       self' = [self EXCEPT !.zones = <<cluster_zone>>,
                            !.vm_dict = [g \in 0..Len(sections) |-> <<>>]]
  /\ init_pc' = "threads"
  /\ UNCHANGED <<pool, sections, init_exc>>
  /\ UNCHANGED <<lifeVars, suiteVars, extVars>>

InZones(zone) == \E k \in 1..Len(self.zones) : self.zones[k] = zone

\* The statement after lines 283-285.
AfterZone(s) == IF sections[s].lists THEN "image" ELSE "check"

\* `value in list`.
InList(value, list) == \E k \in 1..Len(list) : list[k] = value

\* Lines 283-284: the section's zone (its 'zone' option, 0 standing for a
\* section without one) and the test `if zone not in self.zones`.
T_Zone(s) ==
  /\ init_pc = "threads"
  /\ sections[s].pc = "new"
  /\ \E zone_option \in 0..MaxZones :
       LET zone == IF zone_option # 0 THEN zone_option ELSE self.zones[1]
       IN sections' = [sections EXCEPT
            ![s].z = zone,
            ![s].pc = IF InZones(zone) THEN AfterZone(s) ELSE "zones.append"]
  /\ UNCHANGED <<self, init_pc, pool, init_exc>>
  /\ UNCHANGED <<lifeVars, suiteVars, extVars>>

\* Line 285: self.zones.append(zone).
T_AppendZone(s) ==
  /\ init_pc = "threads"
  /\ sections[s].pc = "zones.append"
  /\ self' = [self EXCEPT !.zones = Append(@, sections[s].z)]
  /\ sections' = [sections EXCEPT ![s].pc = AfterZone(s)]
  /\ UNCHANGED <<init_pc, pool, init_exc>>
  /\ UNCHANGED <<lifeVars, suiteVars, extVars>>

\* Line 286: `if node_section['image'] not in self.image`.
T_Image(s) ==
  /\ init_pc = "threads"
  /\ sections[s].pc = "image"
  /\ \E image \in Images :
       sections' = [sections EXCEPT
         ![s].image = image,
         ![s].pc = IF InList(image, self.image) THEN "vm_type"
                   ELSE "image.append"]
  /\ UNCHANGED <<self, init_pc, pool, init_exc>>
  /\ UNCHANGED <<lifeVars, suiteVars, extVars>>

\* Line 287: self.image.append(node_section['image']).
T_AppendImage(s) ==
  /\ init_pc = "threads"
  /\ sections[s].pc = "image.append"
  /\ self' = [self EXCEPT !.image = Append(@, sections[s].image)]
  /\ sections' = [sections EXCEPT ![s].pc = "vm_type"]
  /\ UNCHANGED <<init_pc, pool, init_exc>>
  /\ UNCHANGED <<lifeVars, suiteVars, extVars>>

\* Line 288: `if node_section['vm_type'] not in self.machine_type`.
T_MachineType(s) ==
  /\ init_pc = "threads"
  /\ sections[s].pc = "vm_type"
  /\ \E vm_type \in MachineTypes :
       sections' = [sections EXCEPT
         ![s].vm_type = vm_type,
         ![s].pc = IF InList(vm_type, self.machine_type) THEN "check"
                   ELSE "machine_type.append"]
  /\ UNCHANGED <<self, init_pc, pool, init_exc>>
  /\ UNCHANGED <<lifeVars, suiteVars, extVars>>

\* Line 289: self.machine_type.append(node_section['vm_type']).
T_AppendMachineType(s) ==
  /\ init_pc = "threads"
  /\ sections[s].pc = "machine_type.append"
  /\ self' = [self EXCEPT !.machine_type = Append(@, sections[s].vm_type)]
  /\ sections' = [sections EXCEPT ![s].pc = "check"]
  /\ UNCHANGED <<init_pc, pool, init_exc>>
  /\ UNCHANGED <<lifeVars, suiteVars, extVars>>

\* Line 290: `if zone not in self.networks`.
T_CheckNetwork(s) ==
  /\ init_pc = "threads"
  /\ sections[s].pc = "check"
  /\ sections' = [sections EXCEPT ![s].pc =
                    IF sections[s].z \in DOMAIN self.networks
                      THEN "vm_spec" ELSE "network"]
  /\ UNCHANGED <<self, init_pc, pool, init_exc>>
  /\ UNCHANGED <<lifeVars, suiteVars, extVars>>

\* Lines 291-292: self.networks[zone] = network_class(zone).
T_MakeNetwork(s) ==
  /\ init_pc = "threads"
  /\ sections[s].pc = "network"
  /\ self' = [self EXCEPT !.networks = WithNetwork(@, sections[s].z, s)]
  /\ sections' = [sections EXCEPT ![s].pc = "vm_spec"]
  /\ UNCHANGED <<init_pc, pool, init_exc>>
  /\ UNCHANGED <<lifeVars, suiteVars, extVars>>

\* Lines 293-300: the vm_spec takes self.networks[zone] as it is now; then
\* `count` VMs are made, which raises unless count is 0.
T_MakeVms(s) ==
  /\ init_pc = "threads"
  /\ sections[s].pc = "vm_spec"
  /\ \E count \in 0..MaxCount :
       LET net == self.networks[sections[s].z]
       IN sections' =
            IF NodeVmClassRaises(count)
              THEN [sections EXCEPT ![s].net = net, ![s].pc = "raised"]
              ELSE [sections EXCEPT
                      ![s].net = net,
                      ![s].vms = [k \in 1..count |->
                                   [id |-> s * (MaxCount + 1) + k,
                                    static |-> FALSE, zone |-> sections[s].z,
                                    network |-> net]],
                      ![s].pc = "extend"]
  /\ UNCHANGED <<self, init_pc, pool, init_exc>>
  /\ UNCHANGED <<lifeVars, suiteVars, extVars>>

\* Lines 301-312: self.vms.extend(vms) and self.vm_dict[node_name].extend(vms).
T_Extend(s) ==
  /\ init_pc = "threads"
  /\ sections[s].pc = "extend"
  /\ self' = [self EXCEPT !.vms = @ \o sections[s].vms,
                          !.vm_dict[s] = @ \o sections[s].vms]
  /\ sections' = [sections EXCEPT ![s].pc = "done"]
  /\ UNCHANGED <<init_pc, pool, init_exc>>
  /\ UNCHANGED <<lifeVars, suiteVars, extVars>>

SectionsAt(pcs) == {s \in 1..Len(sections) : sections[s].pc \in pcs}

\* Lines 156-160: RunThreaded has joined every thread; it raises if one of
\* them raised, otherwise self.num_vms = len(self.vms) and __init__ goes on
\* to its end.
I_ThreadsJoined ==
  /\ init_pc = "threads"
  /\ SectionsAt({"done", "raised"}) = 1..Len(sections)
  /\ IF RunThreadedRaises(SectionsAt({"raised"}) # {})
       THEN /\ init_exc' = "ThreadException"
            /\ init_pc' = "raised"
            /\ self' = self
       ELSE /\ init_exc' = init_exc
            /\ init_pc' = "done"
            /\ self' = [self EXCEPT !.num_vms = Len(self.vms)]
  /\ UNCHANGED <<pool, sections>>
  /\ UNCHANGED <<lifeVars, suiteVars, extVars>>

NextConstruct ==
  \/ I_Flags
  \/ I_CreateVirtualMachine
  \/ I_FlagsFinish
  \/ I_Config
  \/ \E s \in 1..Len(sections) : T_Zone(s)
  \/ \E s \in 1..Len(sections) : T_AppendZone(s)
  \/ \E s \in 1..Len(sections) : T_CheckNetwork(s)
  \/ \E s \in 1..Len(sections) : T_MakeNetwork(s)
  \/ \E s \in 1..Len(sections) : T_MakeVms(s)
  \/ \E s \in 1..Len(sections) : T_Extend(s)
  \/ I_ThreadsJoined

SpecConstruct == InitConstruct /\ [][NextConstruct]_vars

\* The config path alone, with every statement of the threads of
\* CreateVirtualMachineFromNodeSection.
InitNodeSections ==
  /\ LifeIdle
  /\ SuiteIdle
  /\ ExtIdle
  /\ self = NewSelf(TRUE)
  /\ \E n \in 1..MaxSections :
       sections = [s \in 1..n |-> [NewSection EXCEPT !.lists = TRUE]]
  /\ init_pc = "start"
  /\ pool = 0
  /\ init_exc = "none"

NextNodeSections ==
  \/ I_Config
  \/ \E s \in 1..Len(sections) :
       \/ T_Zone(s)
       \/ T_AppendZone(s)
       \/ T_Image(s)
       \/ T_AppendImage(s)
       \/ T_MachineType(s)
       \/ T_AppendMachineType(s)
       \/ T_CheckNetwork(s)
       \/ T_MakeNetwork(s)
       \/ T_MakeVms(s)
       \/ T_Extend(s)
  \/ I_ThreadsJoined

SpecNodeSections == InitNodeSections /\ [][NextNodeSections]_vars

\* ------------------------------------------------ BenchmarkSpec.PrepareVm
\* Lines 314-336, one thread of the fan-out of Prepare per VM.  A thread is
\* at a statement of PrepareVm (`pc`), has made the calls of `log` in that
\* order, and has `disks` of vm.disk_specs still to create.  The statements
\* are named after the call they make; the three `if vm.<port>` statements
\* after the port they test, each calling firewall.AllowPort when it is set.
MaxPrepVms == 1

MaxDiskSpecs == 1

\* Mutant: the order create, wait for boot, open ports, tag, startup, ...
PipelineOrder_BootFirst ==
  <<"vm.Create", "vm.WaitForBootCompletion", "winrm_port", "smb_port",
    "ssh_port", "vm.AddMetadata", "vm.Startup", "vm.SetupLocalDisks",
    "vm.CreateScratchDisk">>

\* The statements of PrepareVm in the order of the code.
PipelineOrder ==
  <<"vm.Create", "winrm_port", "smb_port", "ssh_port", "vm.AddMetadata",
    "vm.WaitForBootCompletion", "vm.Startup", "vm.SetupLocalDisks",
    "vm.CreateScratchDisk">>

PortTests == {"winrm_port", "smb_port", "ssh_port"}

\* The statement that follows `step`; PrepareVm returns after the last one.
After(step) ==
  LET i == CHOOSE k \in 1..Len(PipelineOrder) : PipelineOrder[k] = step
  IN IF i = Len(PipelineOrder) THEN "returned" ELSE PipelineOrder[i + 1]

InitPrepareVm ==
  /\ LifeIdle
  /\ SuiteIdle
  /\ InitIdle
  /\ ObjIdle /\ EntryIdle /\ AwsIdle /\ ProvIdle
  /\ scratch_vms = <<>>
  /\ \E type \in {"standard", "local"} :
       scratch = [scratch_disk_type |-> type, scratch_disk |-> 0,
                  present |-> FALSE, num_striped_disks |-> 1]
  /\ \E n \in 1..MaxPrepVms :
       prep \in [1..n -> [pc : {PipelineOrder[1]}, log : {<<>>},
                          disks : 0..MaxDiskSpecs]]

\* The thread of VM v executes the statement `step`: it makes the call or
\* not (`called`); a call that raises ends PrepareVm, nothing in it catches.
Advance(v, step, called, ok, next) ==
  /\ prep[v].pc = step
  /\ prep' = [prep EXCEPT
       ![v].pc = IF called /\ ~ok THEN "raised" ELSE next,
       ![v].log = IF called THEN Append(@, step) ELSE @]
  /\ UNCHANGED scratch
  /\ UNCHANGED scratch_vms
  /\ UNCHANGED <<lifeVars, suiteVars, initVars, objVars, entryVars, awsVars,
                 provVars>>

\* Line 321: vm.Create().
P_Create(v) ==
  \E ok \in BOOLEAN : Advance(v, "vm.Create", TRUE, ok, After("vm.Create"))

\* Lines 324-329: `if vm.winrm_port`, `if vm.smb_port`, `if vm.ssh_port`,
\* each followed by firewall.AllowPort(vm, port).
P_AllowPort(v) ==
  \E port \in PortTests, is_set \in BOOLEAN, ok \in BOOLEAN :
    Advance(v, port, is_set, ok, After(port))

\* Line 330: vm.AddMetadata(benchmark=self.benchmark_name).
P_AddMetadata(v) ==
  \E ok \in BOOLEAN :
    Advance(v, "vm.AddMetadata", TRUE, ok, After("vm.AddMetadata"))

\* Line 331: vm.WaitForBootCompletion().
P_WaitForBootCompletion(v) ==
  \E ok \in BOOLEAN :
    Advance(v, "vm.WaitForBootCompletion", TRUE, ok,
            After("vm.WaitForBootCompletion"))

\* Line 332: vm.Startup().
P_Startup(v) ==
  \E ok \in BOOLEAN : Advance(v, "vm.Startup", TRUE, ok, After("vm.Startup"))

\* Lines 333-334: vm.SetupLocalDisks() when the scratch disks are local.
P_SetupLocalDisks(v) ==
  \E ok \in BOOLEAN :
    Advance(v, "vm.SetupLocalDisks", scratch.scratch_disk_type = "local", ok,
            After("vm.SetupLocalDisks"))

\* Lines 335-336: one iteration of `for disk_spec in vm.disk_specs`, or the
\* end of the loop.
P_CreateScratchDisk(v) ==
  /\ prep[v].pc = "vm.CreateScratchDisk"
  /\ IF prep[v].disks = 0
       THEN prep' = [prep EXCEPT ![v].pc = After("vm.CreateScratchDisk")]
       ELSE \E ok \in BOOLEAN :
              prep' = [prep EXCEPT
                ![v].pc = IF ok THEN @ ELSE "raised",
                ![v].disks = @ - 1,
                ![v].log = Append(@, "vm.CreateScratchDisk")]
  /\ UNCHANGED scratch
  /\ UNCHANGED scratch_vms
  /\ UNCHANGED <<lifeVars, suiteVars, initVars, objVars, entryVars, awsVars,
                 provVars>>

NextPrepareVm ==
  \/ \E v \in 1..Len(prep) : P_Create(v)
  \/ \E v \in 1..Len(prep) : P_AllowPort(v)
  \/ \E v \in 1..Len(prep) : P_AddMetadata(v)
  \/ \E v \in 1..Len(prep) : P_WaitForBootCompletion(v)
  \/ \E v \in 1..Len(prep) : P_Startup(v)
  \/ \E v \in 1..Len(prep) : P_SetupLocalDisks(v)
  \/ \E v \in 1..Len(prep) : P_CreateScratchDisk(v)

SpecPrepareVm == InitPrepareVm /\ [][NextPrepareVm]_vars

\* ------------------------------------------------- BenchmarkSpec.DeleteVm
\* Lines 338-347, one thread of the fan-out of Delete per VM, in the same
\* representation as PrepareVm: the statement the thread is at and the
\* calls it has made.
MaxDeleteVms == 2

InitDeleteVm ==
  /\ LifeIdle
  /\ SuiteIdle
  /\ InitIdle
  /\ ObjIdle /\ ScratchIdle /\ EntryIdle /\ AwsIdle /\ ProvIdle
  /\ \E n \in 1..MaxDeleteVms :
       prep \in [1..n -> [pc : {"vm.PackageCleanup"}, log : {<<>>},
                          disks : {0}]]

\* Lines 344-345: vm.PackageCleanup() for a static VM with install_packages.
DV_PackageCleanup(v) ==
  \E is_static \in BOOLEAN, install_packages \in BOOLEAN, ok \in BOOLEAN :
    Advance(v, "vm.PackageCleanup", is_static /\ install_packages, ok,
            "vm.Delete")

\* Line 346: vm.Delete().
DV_Delete(v) ==
  \E ok \in BOOLEAN : Advance(v, "vm.Delete", TRUE, ok, "vm.DeleteScratchDisks")

\* Line 347: vm.DeleteScratchDisks().
DV_DeleteScratchDisks(v) ==
  \E ok \in BOOLEAN :
    Advance(v, "vm.DeleteScratchDisks", TRUE, ok, "returned")

NextDeleteVm ==
  \E v \in 1..Len(prep) :
    \/ DV_PackageCleanup(v)
    \/ DV_Delete(v)
    \/ DV_DeleteScratchDisks(v)

SpecDeleteVm == InitDeleteVm /\ [][NextDeleteVm]_vars

\* ------------------------------- BenchmarkSpec.__init__, the scratch disks
\* Lines 188-203 of the flag path: the loop over self.vms that gives every
\* VM its disk specs.  `scratch` holds what the loop reads:
\* FLAGS.scratch_disk_type, benchmark_info['scratch_disk'],
\* FLAGS['num_striped_disks'].present and FLAGS.num_striped_disks.
MaxScratchVms == 2

MaxScratchDisks == 2

MaxLocalDisks == 8

MaxStripedFlag == 2

\* '%d' % i for the small numbers the loop formats.
Decimal(i) == <<"0", "1", "2", "3", "4", "5", "6", "7", "8", "9">>[i + 1]

\* '/scratch%d' % i, as the pieces of the text.
MountPoint(i) == <<"/scratch", Decimal(i)>>

InitScratch ==
  /\ LifeIdle
  /\ SuiteIdle
  /\ InitIdle
  /\ ObjIdle /\ PrepIdle /\ EntryIdle /\ AwsIdle /\ ProvIdle
  /\ scratch \in [scratch_disk_type : {"standard", "local"},
                   scratch_disk : 0..MaxScratchDisks,
                   present : BOOLEAN,
                   num_striped_disks : 1..MaxStripedFlag]
  /\ \E n \in 1..MaxScratchVms :
       scratch_vms \in [1..n -> [max_local_disks : 0..MaxLocalDisks,
                                 disk_specs : {<<>>}, visited : {FALSE}]]

\* Mutant: an explicitly given num_striped_disks is overridden too.
NumStripedDisks_IgnoresPresent(vm) ==
  IF scratch.scratch_disk_type = "local" /\ scratch.scratch_disk # 0
    THEN vm.max_local_disks \div scratch.scratch_disk
    ELSE scratch.num_striped_disks

\* Lines 191-197 (Python 2: `/` on integers is the floor division).
NumStripedDisks(vm) ==
  IF /\ scratch.scratch_disk_type = "local"
     /\ scratch.scratch_disk # 0
     /\ ~scratch.present
    THEN vm.max_local_disks \div scratch.scratch_disk
    ELSE scratch.num_striped_disks

\* Lines 198-203: disk.BaseDiskSpec(size, type, '/scratch%d' % i, iops,
\* num_striped_disks) for i in range(benchmark_info['scratch_disk']).
DiskSpecs(vm) ==
  [k \in 1..scratch.scratch_disk |->
     [disk_type |-> scratch.scratch_disk_type,
      mount_point |-> MountPoint(k - 1),
      num_striped_disks |-> NumStripedDisks(vm)]]

\* One iteration of `for vm in self.vms`: the disk specs are appended to
\* vm.disk_specs.
DS_VmDiskSpecs ==
  /\ \E v \in 1..Len(scratch_vms) :
       /\ ~scratch_vms[v].visited
       /\ \A u \in 1..(v - 1) : scratch_vms[u].visited
       /\ scratch_vms' = [scratch_vms EXCEPT
            ![v].disk_specs = @ \o DiskSpecs(scratch_vms[v]),
            ![v].visited = TRUE]
  /\ UNCHANGED scratch
  /\ UNCHANGED <<lifeVars, suiteVars, initVars, objVars, prepVars, entryVars,
                 awsVars, provVars>>

NextScratch == DS_VmDiskSpecs

SpecScratch == InitScratch /\ [][NextScratch]_vars

\* ------------------- AwsVirtualMachine.ImportKeyfile and DeleteKeyfile
\* aws_virtual_machine.py 403-433.  Every AWS VM is a thread that calls
\* ImportKeyfile (from _CreateDependencies) and DeleteKeyfile (from
\* _DeleteDependencies); _lock and the two sets are class attributes, shared
\* by all of them.
MaxAwsVms == 2

\* The calls the threads make in all.
MaxKeyCalls == 3

Regions == {"us-east-1", "us-west-2"}

NoCommands == [import_issued |-> 0, import_returned |-> 0,
               import_raised |-> 0, delete_issued |-> 0]

InitAwsKeys ==
  /\ LifeIdle
  /\ SuiteIdle
  /\ InitIdle
  /\ ObjIdle /\ PrepIdle /\ ScratchIdle /\ EntryIdle /\ ProvIdle
  /\ aws_lock = 0
  /\ imported_keyfile_set = {}
  /\ deleted_keyfile_set = {}
  /\ \E n \in 1..MaxAwsVms :
       aws_vms \in [1..n -> [region : Regions, pc : {"idle"}, op : {"none"},
                             last : {"none"}]]
  /\ aws_cmds = [calls_left |-> MaxKeyCalls,
                 by_region |-> [r \in Regions |-> NoCommands]]

\* Mutant: the with statement enters without waiting for the lock.
LockFree_NoWait == TRUE

\* threading.Lock: `with self._lock` blocks until no thread holds it.
LockFree == aws_lock = 0

\* A thread calls ImportKeyfile (459) or DeleteKeyfile (475).
K_Call(v) ==
  /\ aws_vms[v].pc = "idle"
  /\ aws_cmds.calls_left > 0
  /\ \E op \in {"ImportKeyfile", "DeleteKeyfile"} :
       aws_vms' = [aws_vms EXCEPT ![v].pc = "with", ![v].op = op]
  /\ aws_cmds' = [aws_cmds EXCEPT !.calls_left = @ - 1]
  /\ UNCHANGED <<aws_lock, imported_keyfile_set, deleted_keyfile_set>>
  /\ UNCHANGED <<lifeVars, suiteVars, initVars, objVars, prepVars, scratchVars,
                 entryVars, provVars>>

\* Lines 405 and 423: with self._lock.
K_Acquire(v) ==
  /\ aws_vms[v].pc = "with"
  /\ LockFree
  /\ aws_lock' = v
  /\ aws_vms' = [aws_vms EXCEPT ![v].pc = "check"]
  /\ UNCHANGED <<imported_keyfile_set, deleted_keyfile_set, aws_cmds>>
  /\ UNCHANGED <<lifeVars, suiteVars, initVars, objVars, prepVars, scratchVars,
                 entryVars, provVars>>

\* The set the call tests and fills: lines 406 and 424.
OwnSet(op) ==
  IF op = "ImportKeyfile" THEN imported_keyfile_set ELSE deleted_keyfile_set

\* Lines 406-407 and 424-425: a region already in the set returns at once,
\* which leaves the with block and releases the lock.
K_Check(v) ==
  /\ aws_vms[v].pc = "check"
  /\ IF aws_vms[v].region \in OwnSet(aws_vms[v].op)
       THEN /\ aws_vms' = [aws_vms EXCEPT ![v].pc = "idle",
                                           ![v].last = "skipped"]
            /\ aws_lock' = 0
       ELSE /\ aws_vms' = [aws_vms EXCEPT ![v].pc = "command"]
            /\ UNCHANGED aws_lock
  /\ UNCHANGED <<imported_keyfile_set, deleted_keyfile_set, aws_cmds>>
  /\ UNCHANGED <<lifeVars, suiteVars, initVars, objVars, prepVars, scratchVars,
                 entryVars, provVars>>

\* Lines 408-415 and 426-430: the command.  IssueRetryableCommand returns
\* when the command succeeded and raises when its retries are used up; the
\* exception leaves the with block, so the lock is released and the region
\* stays unrecorded.  import_* count the import-key-pair commands of the
\* region since a DeleteKeyfile last recorded it as deleted.
K_Command(v) ==
  /\ aws_vms[v].pc = "command"
  /\ \E outcome \in {"returned", "raised"} :
       LET r == aws_vms[v].region
           c == aws_cmds.by_region[r]
           import == aws_vms[v].op = "ImportKeyfile"
       IN /\ aws_cmds' = [aws_cmds EXCEPT !.by_region[r] =
                IF import
                  THEN [c EXCEPT
                         !.import_issued = @ + 1,
                         !.import_returned =
                            IF outcome = "returned" THEN @ + 1 ELSE @,
                         !.import_raised =
                            IF outcome = "raised" THEN @ + 1 ELSE @]
                  ELSE [c EXCEPT !.delete_issued = @ + 1]]
          /\ IF outcome = "returned"
               THEN /\ aws_vms' = [aws_vms EXCEPT ![v].pc = "record"]
                    /\ UNCHANGED aws_lock
               ELSE /\ aws_vms' = [aws_vms EXCEPT ![v].pc = "idle",
                                                   ![v].last = "raised"]
                    /\ aws_lock' = 0
  /\ UNCHANGED <<imported_keyfile_set, deleted_keyfile_set>>
  /\ UNCHANGED <<lifeVars, suiteVars, initVars, objVars, prepVars, scratchVars,
                 entryVars, provVars>>

\* Lines 416-418 and 431-433: the region is added to the call's own set and
\* removed from the other one; the with block ends and releases the lock.
K_Record(v) ==
  /\ aws_vms[v].pc = "record"
  /\ LET r == aws_vms[v].region
     IN IF aws_vms[v].op = "ImportKeyfile"
          THEN /\ imported_keyfile_set' = imported_keyfile_set \cup {r}
               /\ deleted_keyfile_set' = deleted_keyfile_set \ {r}
               /\ aws_vms' = [aws_vms EXCEPT ![v].pc = "idle",
                                              ![v].last = "imported"]
               /\ UNCHANGED aws_cmds
          ELSE /\ deleted_keyfile_set' = deleted_keyfile_set \cup {r}
               /\ imported_keyfile_set' = imported_keyfile_set \ {r}
               /\ aws_vms' = [aws_vms EXCEPT ![v].pc = "idle",
                                              ![v].last = "deleted"]
               /\ aws_cmds' = [aws_cmds EXCEPT !.by_region[r] =
                    [NoCommands EXCEPT
                       !.delete_issued = aws_cmds.by_region[r].delete_issued]]
  /\ aws_lock' = 0
  /\ UNCHANGED <<lifeVars, suiteVars, initVars, objVars, prepVars, scratchVars,
                 entryVars, provVars>>

NextAwsKeys ==
  \E v \in 1..Len(aws_vms) :
    \/ K_Call(v)
    \/ K_Acquire(v)
    \/ K_Check(v)
    \/ K_Command(v)
    \/ K_Record(v)

SpecAwsKeys == InitAwsKeys /\ [][NextAwsKeys]_vars

\* ---------------------------- ProfitBricksVirtualMachine._WaitUntilReady
\* profitbricks_virtual_machine.py 216-246.  `counter` is kept in steps of
\* 0.25, the amount line 241 adds; `polls` counts the status requests and
\* `done_seen` tells whether one of them reported DONE.
TIMEOUT == 25

STEPS_PER_UNIT == 4

\* response['metadata']['status']: DONE, or one of the states before it.
PbStatuses == {"DONE", "BUSY"}

InitWaitUntilReady ==
  /\ LifeIdle
  /\ SuiteIdle
  /\ InitIdle
  /\ ObjIdle /\ PrepIdle /\ ScratchIdle /\ EntryIdle /\ AwsIdle
  /\ host_map = <<>> /\ deleted_hosts = {} /\ hosts = <<>> /\ host_vms = <<>>
  /\ instance = <<>> /\ disk_vm = <<>>
  /\ pb = [pc |-> "start", counter |-> 0, status |-> "none", polls |-> 0,
           done_seen |-> FALSE, result |-> "none"]

\* util.PerformRequest('get', status_url, self.header) and the status read
\* from its response.
Polled(status) ==
  [pb EXCEPT !.status = status, !.polls = @ + 1,
             !.done_seen = @ \/ status = "DONE"]

\* Lines 219-226: counter = 0 and the first status request.
WR_FirstPoll ==
  /\ pb.pc = "start"
  /\ \E status \in PbStatuses : pb' = [Polled(status) EXCEPT !.pc = "while"]
  /\ UNCHANGED <<host_map, deleted_hosts, hosts, host_vms, instance, disk_vm>>
  /\ UNCHANGED <<lifeVars, suiteVars, initVars, objVars, prepVars, scratchVars,
                 entryVars, awsVars>>

\* Lines 229-244: one turn of the loop: the test status != 'DONE', the sleep,
\* the next status request, counter += 0.25 and the test of the timeout,
\* which returns False whatever the request just reported.
WR_LoopPoll ==
  /\ pb.pc = "while"
  /\ pb.status # "DONE"
  /\ \E status \in PbStatuses :
       LET counter == pb.counter + 1
       IN pb' = IF counter >= TIMEOUT * STEPS_PER_UNIT
                  THEN [Polled(status) EXCEPT !.counter = counter,
                                              !.pc = "returned",
                                              !.result = "False"]
                  ELSE [Polled(status) EXCEPT !.counter = counter]
  /\ UNCHANGED <<host_map, deleted_hosts, hosts, host_vms, instance, disk_vm>>
  /\ UNCHANGED <<lifeVars, suiteVars, initVars, objVars, prepVars, scratchVars,
                 entryVars, awsVars>>

\* Lines 229 and 246: the loop ends on status DONE and True is returned.
WR_ReturnTrue ==
  /\ pb.pc = "while"
  /\ pb.status = "DONE"
  /\ pb' = [pb EXCEPT !.pc = "returned", !.result = "True"]
  /\ UNCHANGED <<host_map, deleted_hosts, hosts, host_vms, instance, disk_vm>>
  /\ UNCHANGED <<lifeVars, suiteVars, initVars, objVars, prepVars, scratchVars,
                 entryVars, awsVars>>

NextWaitUntilReady == WR_FirstPoll \/ WR_LoopPoll \/ WR_ReturnTrue

SpecWaitUntilReady == InitWaitUntilReady /\ [][NextWaitUntilReady]_vars

\* ------------------------------------ AwsVirtualMachine's dedicated hosts
\* aws_virtual_machine.py 457-482 and 484-538 for VMs with
\* use_dedicated_host, each in its own thread: _CreateDependencies, _Create
\* until run-instances places the instance or fails for good, the VM's
\* deletion and _DeleteDependencies.  A host is its position in hosts;
\* host 0 is None.  host_map maps a (machine_type, zone), here a key, to
\* its host_list.  The class lock is aws_lock, the _lock of line 300.
HostKeys == {"key-a", "key-b"}

MaxHostVms == 3

MaxHosts == 3

\* The instances a dedicated host has room for.
HostCapacity == 1

\* The VMs followed when the claim is about their deletion.
MaxReleaseVms == 2

\* Up to max_vms VMs, each of either key, before their creation.
HostsStart(max_vms) ==
  /\ LifeIdle
  /\ SuiteIdle
  /\ InitIdle
  /\ ObjIdle /\ PrepIdle /\ ScratchIdle /\ EntryIdle
  /\ aws_lock = 0
  /\ imported_keyfile_set = {} /\ deleted_keyfile_set = {}
  /\ aws_vms = <<>> /\ aws_cmds = <<>>
  /\ instance = <<>> /\ disk_vm = <<>> /\ pb = <<>>
  /\ host_map = [k \in HostKeys |-> <<>>]
  /\ deleted_hosts = {}
  /\ hosts = <<>>
  /\ \E n \in 1..max_vms :
       host_vms \in [1..n -> [pc : {"_CreateDependencies"}, key : HostKeys,
                              host : {0}, num_hosts : {0},
                              client_token : {0}, error : {"none"}]]

InitHosts == HostsStart(MaxHostVms)

InitHostRelease == HostsStart(MaxReleaseVms)

\* Line 347-349: the host_list property.
host_list(v) == host_map[host_vms[v].key]

\* What the host steps leave alone.
HostsFrame ==
  /\ UNCHANGED <<imported_keyfile_set, deleted_keyfile_set, aws_vms, aws_cmds>>
  /\ UNCHANGED <<instance, disk_vm, pb>>
  /\ UNCHANGED <<lifeVars, suiteVars, initVars, objVars, prepVars, scratchVars,
                 entryVars>>

\* AwsDedicatedHost(machine_type, zone), lines 194-200, made by VM v
\* because host `cause` had no room (0: made by _CreateDependencies).
NewHost(v, cause) ==
  [key |-> host_vms[v].key, cause |-> cause, by |-> v, instances |-> 0,
   delete_calls |-> 0, delete_returned |-> 0]

\* Lines 465-467: with self._lock: if not self.host_list.
H_DepEnter(v) ==
  /\ host_vms[v].pc = "_CreateDependencies"
  /\ LockFree
  /\ aws_lock' = v
  /\ host_vms' = [host_vms EXCEPT ![v].pc =
       IF host_list(v) = <<>> THEN "dep.allocate" ELSE "dep.host"]
  /\ UNCHANGED <<host_map, deleted_hosts, hosts>>
  /\ HostsFrame

\* Lines 468-470: the host is appended and then created; host.Create()
\* raising leaves the with block with the host in the list.
H_DepAllocate(v) ==
  /\ host_vms[v].pc = "dep.allocate"
  /\ hosts' = Append(hosts, NewHost(v, 0))
  /\ host_map' = [host_map EXCEPT ![host_vms[v].key] = Append(@, Len(hosts) + 1)]
  /\ \E ok \in BOOLEAN :
       IF ok THEN /\ host_vms' = [host_vms EXCEPT ![v].pc = "dep.host"]
                  /\ UNCHANGED aws_lock
             ELSE /\ host_vms' = [host_vms EXCEPT ![v].pc = "failed",
                                                  ![v].error = "host.Create"]
                  /\ aws_lock' = 0
  /\ UNCHANGED deleted_hosts
  /\ HostsFrame

\* Line 471: self.host = self.host_list[-1], the end of the with block.
H_DepSetHost(v) ==
  /\ host_vms[v].pc = "dep.host"
  /\ host_vms' = [host_vms EXCEPT
       ![v].host = host_list(v)[Len(host_list(v))],
       ![v].pc = "_Create"]
  /\ aws_lock' = 0
  /\ UNCHANGED <<host_map, deleted_hosts, hosts>>
  /\ HostsFrame

\* Lines 489-491: HostId is self.host.id and num_hosts = len(self.host_list),
\* read without the lock.
H_ReadHosts(v) ==
  /\ host_vms[v].pc = "_Create"
  /\ host_vms' = [host_vms EXCEPT ![v].num_hosts = Len(host_list(v)),
                                  ![v].pc = "run-instances"]
  /\ UNCHANGED <<aws_lock, host_map, deleted_hosts, hosts>>
  /\ HostsFrame

\* Lines 526-543: run-instances on self.host.  A host with no room left
\* answers InsufficientCapacityOnHost; otherwise the instance is placed or
\* the command fails for another reason, which _Create raises or the
\* caller finds.
H_RunInstances(v) ==
  LET host == host_vms[v].host IN
  /\ host_vms[v].pc = "run-instances"
  /\ IF hosts[host].instances >= HostCapacity
       THEN /\ host_vms' = [host_vms EXCEPT ![v].pc =
                 IF Len(hosts) < MaxHosts THEN "retry.with" ELSE "failed"]
            /\ UNCHANGED hosts
       ELSE \E placed \in BOOLEAN :
              IF placed
                THEN /\ hosts' = [hosts EXCEPT ![host].instances = @ + 1]
                     /\ host_vms' = [host_vms EXCEPT ![v].pc = "created"]
                ELSE /\ host_vms' = [host_vms EXCEPT
                          ![v].pc = "failed",
                          ![v].error = "InsufficientInstanceCapacity"]
                     /\ UNCHANGED hosts
  /\ UNCHANGED <<aws_lock, host_map, deleted_hosts>>
  /\ HostsFrame

\* Lines 531-532: with self._lock: if num_hosts == len(self.host_list).
H_RetryEnter(v) ==
  /\ host_vms[v].pc = "retry.with"
  /\ LockFree
  /\ aws_lock' = v
  /\ host_vms' = [host_vms EXCEPT ![v].pc =
       IF host_vms[v].num_hosts = Len(host_list(v))
         THEN "retry.allocate" ELSE "retry.host"]
  /\ UNCHANGED <<host_map, deleted_hosts, hosts>>
  /\ HostsFrame

\* Lines 533-535: a new host, for the host that had no room.
H_RetryAllocate(v) ==
  /\ host_vms[v].pc = "retry.allocate"
  /\ hosts' = Append(hosts, NewHost(v, host_vms[v].host))
  /\ host_map' = [host_map EXCEPT ![host_vms[v].key] = Append(@, Len(hosts) + 1)]
  /\ \E ok \in BOOLEAN :
       IF ok THEN /\ host_vms' = [host_vms EXCEPT ![v].pc = "retry.host"]
                  /\ UNCHANGED aws_lock
             ELSE /\ host_vms' = [host_vms EXCEPT ![v].pc = "failed",
                                                  ![v].error = "host.Create"]
                  /\ aws_lock' = 0
  /\ UNCHANGED deleted_hosts
  /\ HostsFrame

\* Lines 536-538: self.host = self.host_list[-1] (an IndexError when the
\* list has been emptied meanwhile), a new client token and
\* RetryableCreationError, on which the caller runs _Create again.
H_RetrySetHost(v) ==
  /\ host_vms[v].pc = "retry.host"
  /\ host_vms' =
       IF host_list(v) = <<>>
         THEN [host_vms EXCEPT ![v].pc = "failed", ![v].error = "IndexError"]
         ELSE [host_vms EXCEPT
                 ![v].host = host_list(v)[Len(host_list(v))],
                 ![v].client_token = @ + 1,
                 ![v].pc = "_Create"]
  /\ aws_lock' = 0
  /\ UNCHANGED <<host_map, deleted_hosts, hosts>>
  /\ HostsFrame

\* The VM is deleted: terminate-instances (549-556) frees its room on the
\* host, and _DeleteDependencies follows.
H_Delete(v) ==
  /\ host_vms[v].pc \in {"created", "failed"}
  /\ hosts' = IF host_vms[v].pc = "created"
                THEN [hosts EXCEPT ![host_vms[v].host].instances = @ - 1]
                ELSE hosts
  /\ host_vms' = [host_vms EXCEPT ![v].pc = "_DeleteDependencies"]
  /\ UNCHANGED <<aws_lock, host_map, deleted_hosts>>
  /\ HostsFrame

\* Lines 476-477: if self.host: with self._lock.
H_DelEnter(v) ==
  /\ host_vms[v].pc = "_DeleteDependencies"
  /\ IF host_vms[v].host = 0
       THEN /\ host_vms' = [host_vms EXCEPT ![v].pc = "deleted"]
            /\ UNCHANGED aws_lock
       ELSE /\ LockFree
            /\ aws_lock' = v
            /\ host_vms' = [host_vms EXCEPT ![v].pc = "del.body"]
  /\ UNCHANGED <<host_map, deleted_hosts, hosts>>
  /\ HostsFrame

\* Mutant: the host is released whatever deleted_hosts holds.
DeleteNeeded_Always(host) == TRUE

\* Line 480: if self.host not in self.deleted_hosts.
DeleteNeeded(host) == host \notin deleted_hosts

\* list.remove(host), line 479.
Remove(list, host) == SelectSeq(list, LAMBDA h : h # host)

\* Lines 478-482: the body of the with block.  host.Delete() returns or
\* raises; raising leaves the block before deleted_hosts.add.
H_DelBody(v) ==
  LET host == host_vms[v].host
      key == host_vms[v].key
  IN
  /\ host_vms[v].pc = "del.body"
  /\ host_map' = [host_map EXCEPT ![key] = Remove(@, host)]
  /\ IF DeleteNeeded(host)
       THEN \E ok \in BOOLEAN :
              /\ hosts' = [hosts EXCEPT
                   ![host].delete_calls = @ + 1,
                   ![host].delete_returned = IF ok THEN @ + 1 ELSE @]
              /\ deleted_hosts' = IF ok THEN deleted_hosts \cup {host}
                                  ELSE deleted_hosts
              /\ host_vms' = [host_vms EXCEPT
                   ![v].pc = "deleted",
                   ![v].error = IF ok THEN @ ELSE "host.Delete"]
       ELSE /\ host_vms' = [host_vms EXCEPT ![v].pc = "deleted"]
            /\ UNCHANGED <<hosts, deleted_hosts>>
  /\ aws_lock' = 0
  /\ HostsFrame

NextHosts ==
  \E v \in DOMAIN host_vms :
    \/ H_DepEnter(v)
    \/ H_DepAllocate(v)
    \/ H_DepSetHost(v)
    \/ H_ReadHosts(v)
    \/ H_RunInstances(v)
    \/ H_RetryEnter(v)
    \/ H_RetryAllocate(v)
    \/ H_RetrySetHost(v)
    \/ H_Delete(v)
    \/ H_DelEnter(v)
    \/ H_DelBody(v)

SpecHosts == InitHosts /\ [][NextHosts]_vars

SpecHostRelease == InitHostRelease /\ [][NextHosts]_vars

\* ------------------------------ AwsVirtualMachine._Create and _Exists
\* aws_virtual_machine.py 484-547 and 580-630 for one VM that is not on a
\* dedicated host: run-instances, then describe-instances polled under
\* the Retry decorator of lines 580-581.
INSTANCE_EXISTS_STATUSES == {"running", "stopping", "stopped"}

INSTANCE_DELETED_STATUSES == {"shutting-down", "terminated"}

INSTANCE_TRANSITIONAL_STATUSES == {"pending"}

INSTANCE_KNOWN_STATUSES ==
  INSTANCE_EXISTS_STATUSES \cup INSTANCE_DELETED_STATUSES
    \cup INSTANCE_TRANSITIONAL_STATUSES

\* What describe-instances can report: the known statuses and one outside.
ReportedStatuses == INSTANCE_KNOWN_STATUSES \cup {"rebooting"}

StateReasons == {"Server.InsufficientInstanceCapacity", "Client.UserInitiatedShutdown"}

\* The stderr of run-instances, by the substrings _Create looks for.
CreateStderrs == {"", "InsufficientInstanceCapacity", "SpotMaxPriceTooLow"}

\* The responses of describe-instances: no reservation, one reservation
\* of one instance, or two reservations.
Responses ==
  {[reservations |-> n, status |-> "none", reason |-> "none"] : n \in {0, 2}}
    \cup {[reservations |-> 1, status |-> st, reason |-> r] :
            st \in ReportedStatuses, r \in StateReasons}

MaxPolls == 3

InitInstance ==
  /\ LifeIdle
  /\ SuiteIdle
  /\ InitIdle
  /\ ObjIdle /\ PrepIdle /\ ScratchIdle /\ EntryIdle /\ AwsIdle
  /\ host_map = <<>> /\ deleted_hosts = {} /\ hosts = <<>> /\ host_vms = <<>>
  /\ disk_vm = <<>> /\ pb = <<>>
  /\ \E use_spot_instance \in BOOLEAN :
       instance = [pc |-> "_Create", use_spot_instance |-> use_spot_instance,
                   early_termination |-> FALSE, spot_status_code |-> "None",
                   id |-> "None", stderr |-> "none", polls |-> 0,
                   seen |-> {}, response |-> "none",
                   result |-> "none", error |-> "none"]

\* Mutant: a price failure is raised as a capacity failure.
CreateError_PriceAsCapacity(stderr) ==
  IF stderr = "InsufficientInstanceCapacity" \/ stderr = "SpotMaxPriceTooLow"
    THEN "InsufficientCapacityCloudFailure"
    ELSE "none"

\* Lines 539-547: what _Create raises for the stderr of run-instances.
CreateError(stderr) ==
  IF stderr = "InsufficientInstanceCapacity"
    THEN "InsufficientCapacityCloudFailure"
    ELSE IF stderr = "SpotMaxPriceTooLow" THEN "CreationError"
    ELSE "none"

\* Lines 526-547 with use_dedicated_host false.
C_Create ==
  /\ instance.pc = "_Create"
  /\ \E stderr \in CreateStderrs :
       LET error == CreateError(stderr)
           sets == \/ stderr = "InsufficientInstanceCapacity"
                      /\ instance.use_spot_instance
                   \/ stderr = "SpotMaxPriceTooLow"
       IN instance' = [instance EXCEPT
            !.stderr = stderr,
            !.spot_status_code =
               IF ~sets THEN @
               ELSE IF stderr = "SpotMaxPriceTooLow" THEN "SpotMaxPriceTooLow"
               ELSE "InsufficientSpotInstanceCapacity",
            !.early_termination = IF sets THEN TRUE ELSE @,
            !.error = error,
            !.pc = IF error = "none" THEN "_Exists" ELSE "done"]
  /\ UNCHANGED <<host_map, deleted_hosts, hosts, host_vms, disk_vm, pb>>
  /\ UNCHANGED <<lifeVars, suiteVars, initVars, objVars, prepVars, scratchVars,
                 entryVars, awsVars>>

\* Mutant: the decorator retries every exception.
Retryable_Any(error) == TRUE

\* Line 581: retryable_exceptions=(AwsTransitionalVmRetryableError,).
Retryable(error) == error = "AwsTransitionalVmRetryableError"

\* Lines 598-630: one run of the body of _Exists on a response, as the
\* exception it raises or the value it returns.
ExistsOutcome(response) ==
  IF response.reservations >= 2
    THEN [error |-> "AssertionError", value |-> "none"]
  ELSE IF response.reservations = 0
    THEN [error |-> "AwsTransitionalVmRetryableError", value |-> "none"]
  ELSE IF response.status \notin INSTANCE_KNOWN_STATUSES
    THEN [error |-> "AwsUnknownStatusError", value |-> "none"]
  ELSE IF response.status \in INSTANCE_TRANSITIONAL_STATUSES
    THEN [error |-> "AwsTransitionalVmRetryableError", value |-> "none"]
  ELSE IF response.status = "terminated"
          /\ response.reason = "Server.InsufficientInstanceCapacity"
    THEN [error |-> "InsufficientCapacityCloudFailure", value |-> "none"]
  ELSE [error |-> "none",
        value |-> IF response.status \in INSTANCE_EXISTS_STATUSES
                    THEN "True" ELSE "False"]

\* One describe-instances of _Exists under its decorator: a retryable
\* exception brings another run of the body unless the decorator's bound
\* on time is used up, when the decorator lets the exception through; any
\* other exception and any return value end the call.
E_Exists ==
  /\ instance.pc = "_Exists"
  /\ \E response \in Responses, timed_out \in BOOLEAN :
       LET outcome == ExistsOutcome(response)
           again == /\ outcome.error # "none"
                    /\ Retryable(outcome.error)
                    /\ ~timed_out
                    /\ instance.polls + 1 < MaxPolls
       IN instance' = [instance EXCEPT
            !.polls = @ + 1,
            !.response = response,
            !.seen = @ \cup {IF response.reservations = 1
                               THEN response.status ELSE "none"},
            !.id = IF response.reservations = 1 THEN "InstanceId" ELSE @,
            !.result = IF again THEN @ ELSE outcome.value,
            !.error = IF again THEN @ ELSE outcome.error,
            !.pc = IF again THEN "_Exists" ELSE "done"]
  /\ UNCHANGED <<host_map, deleted_hosts, hosts, host_vms, disk_vm, pb>>
  /\ UNCHANGED <<lifeVars, suiteVars, initVars, objVars, prepVars, scratchVars,
                 entryVars, awsVars>>

NextInstance == C_Create \/ E_Exists

SpecInstance == InitInstance /\ [][NextInstance]_vars

\* ------------------------------- AwsVirtualMachine.CreateScratchDisk
\* aws_virtual_machine.py 632-658, called again and again on one VM.
\* disk_vm holds the VM's max_local_disks and its two counters, the disks
\* of the calls that returned (scratch_disks) and what the last call was.
MaxAwsLocalDisks == 2

MaxDiskCalls == 3

InitScratchDisks ==
  /\ LifeIdle
  /\ SuiteIdle
  /\ InitIdle
  /\ ObjIdle /\ PrepIdle /\ ScratchIdle /\ EntryIdle /\ AwsIdle
  /\ host_map = <<>> /\ deleted_hosts = {} /\ hosts = <<>> /\ host_vms = <<>>
  /\ instance = <<>> /\ pb = <<>>
  /\ \E max_local_disks \in 0..MaxAwsLocalDisks :
       disk_vm = [max_local_disks |-> max_local_disks,
                  local_disk_counter |-> 0, remote_disk_counter |-> 0,
                  scratch_disks |-> <<>>, calls |-> 0,
                  last |-> [disk_type |-> "none", num_striped_disks |-> 0,
                            local_before |-> 0, outcome |-> "none"]]

\* Mutant: the remote disks are numbered from 1.
RemoteDiskNumber_FromOne(vm) == vm.remote_disk_counter + 1

\* Lines 653-654: remote disk numbers start after the local ones.
RemoteDiskNumber(vm) == vm.remote_disk_counter + 1 + vm.max_local_disks

\* Lines 640-656: the loop `for _ in range(disk_spec.num_striped_disks)`,
\* `left` turns still to go.  The result is the VM with its counters
\* advanced, the disks numbered so far and whether line 649 raised.
RECURSIVE NumberDisks(_, _, _, _)
NumberDisks(vm, disk_type, left, disks) ==
  IF left = 0
    THEN [vm |-> vm, disks |-> disks, raised |-> FALSE]
    ELSE IF disk_type = "local"
      THEN LET data_disk == [disk_type |-> "local",
                             disk_number |-> vm.local_disk_counter + 1]
               after == [vm EXCEPT !.local_disk_counter = @ + 1]
           IN IF after.local_disk_counter > after.max_local_disks
                THEN [vm |-> after, disks |-> disks, raised |-> TRUE]
                ELSE NumberDisks(after, disk_type, left - 1,
                                 Append(disks, data_disk))
      ELSE LET data_disk == [disk_type |-> disk_type,
                             disk_number |-> RemoteDiskNumber(vm)]
               after == [vm EXCEPT !.remote_disk_counter = @ + 1]
           IN NumberDisks(after, disk_type, left - 1, Append(disks, data_disk))

\* One call of CreateScratchDisk(disk_spec).  _CreateScratchDiskFromDisks
\* (line 658) creates and attaches the disks and adds them to the VM's
\* scratch disks, or raises.
DK_CreateScratchDisk ==
  /\ disk_vm.calls < MaxDiskCalls
  /\ \E disk_type \in {"local", "standard"},
        num_striped_disks \in 0..MaxStripedFlag, ok \in BOOLEAN :
       LET numbered == NumberDisks(disk_vm, disk_type, num_striped_disks, <<>>)
           outcome == IF numbered.raised THEN "Not enough local disks."
                      ELSE IF ok THEN "returned" ELSE "raised"
       IN disk_vm' = [numbered.vm EXCEPT
            !.calls = @ + 1,
            !.scratch_disks =
               IF outcome = "returned" THEN @ \o numbered.disks ELSE @,
            !.last = [disk_type |-> disk_type,
                      num_striped_disks |-> num_striped_disks,
                      local_before |-> disk_vm.local_disk_counter,
                      outcome |-> outcome]]
  /\ UNCHANGED <<host_map, deleted_hosts, hosts, host_vms, instance, pb>>
  /\ UNCHANGED <<lifeVars, suiteVars, initVars, objVars, prepVars, scratchVars,
                 entryVars, awsVars>>

NextScratchDisks == DK_CreateScratchDisk

SpecScratchDisks == InitScratchDisks /\ [][NextScratchDisks]_vars

\* ------------------------------------------- the methods of a built spec
\* Once __init__ has returned, the caller holds the object `self` and calls
\* its methods in any order and any number of times, each in a process
\* with its own FLAGS.run_stage; `disk` is the pickle file.  The calls the
\* methods make on the handles are the subject of the lifecycle model; here
\* a method is what it does to the attributes of the spec and to the file.

\* Lines 211-220: Prepare assigns no attribute of the spec; it returns or
\* raises.
O_Prepare ==
  /\ init_pc = "done"
  /\ \E ok \in BOOLEAN : last_op' = <<"Prepare", ok>>
  /\ UNCHANGED <<self, disk>>
  /\ UNCHANGED <<init_pc, pool, sections, init_exc>>
  /\ UNCHANGED <<run_stage, spec, pc, ret, exc, todo, fanErr, trace, failed,
                 calls, errs>>
  /\ UNCHANGED <<suiteVars, prepVars, scratchVars, entryVars, awsVars, provVars>>

\* Lines 222-243: the early return of line 223, or the three caught steps
\* and deleted = True.
O_Delete ==
  /\ init_pc = "done"
  /\ \E stage \in Stages :
       self' = IF stage \notin {"all", "cleanup"} \/ self.deleted
                 THEN self
                 ELSE [self EXCEPT !.deleted = TRUE]
  /\ last_op' = <<"Delete", TRUE>>
  /\ UNCHANGED disk
  /\ UNCHANGED <<init_pc, pool, sections, init_exc>>
  /\ UNCHANGED <<run_stage, spec, pc, ret, exc, todo, fanErr, trace, failed,
                 calls, errs>>
  /\ UNCHANGED <<suiteVars, prepVars, scratchVars, entryVars, awsVars, provVars>>

\* Lines 349-352: the object is written to the file; a failure leaves the
\* old file or no loadable record.
O_PickleSpec ==
  /\ init_pc = "done"
  /\ \E ok \in BOOLEAN :
       /\ IF ok THEN disk' = self ELSE disk' \in {disk, NoSpec}
       /\ last_op' = <<"PickleSpec", ok>>
  /\ UNCHANGED self
  /\ UNCHANGED <<init_pc, pool, sections, init_exc>>
  /\ UNCHANGED <<run_stage, spec, pc, ret, exc, todo, fanErr, trace, failed,
                 calls, errs>>
  /\ UNCHANGED <<suiteVars, prepVars, scratchVars, entryVars, awsVars, provVars>>

\* Lines 354-374: the caller goes on with the loaded object; when the load
\* raises it is left with the one it had.
O_GetSpecFromFile ==
  /\ init_pc = "done"
  /\ \E ok \in BOOLEAN :
       /\ ~disk.exists => ~ok
       /\ self' = IF ok THEN GetSpecFromFile ELSE self
       /\ last_op' = <<"GetSpecFromFile", ok>>
  /\ UNCHANGED disk
  /\ UNCHANGED <<init_pc, pool, sections, init_exc>>
  /\ UNCHANGED <<run_stage, spec, pc, ret, exc, todo, fanErr, trace, failed,
                 calls, errs>>
  /\ UNCHANGED <<suiteVars, prepVars, scratchVars, entryVars, awsVars, provVars>>

NextObject ==
  \/ NextConstruct
  \/ O_Prepare
  \/ O_Delete
  \/ O_PickleSpec
  \/ O_GetSpecFromFile

SpecObject == InitConstruct /\ [][NextObject]_vars

TypeOK ==
  /\ run_stage \in Stages
  /\ spec.exists \in BOOLEAN
  /\ pc \in {"start", "prereq", "try", "pickle", "prepare", "P_net", "P_vms",
             "bprepare", "run", "samples", "cleanup", "D_enter", "D_vms",
             "D_fw", "D_net", "D_set", "timers", "finally", "done"}
  /\ failed \subseteq 1..Len(trace)

\* ======================================================================
\* Properties
\* ======================================================================
NumVms == Len(spec.vms)

VmDeleteCalls(i) == calls[<<"DeleteVm", i>>]
NetworkDeleteCalls(z) == calls[<<"network.Delete", z>>]
FirewallCalls == calls[<<"firewall.DisallowAllPorts", 0>>]

\* Delete is between its guard and its return.
DeleteRunning == pc \in {"D_vms", "D_fw", "D_net", "D_set"}

\* Some call of Delete was made in this invocation and none is running.
DeleteFinished == Called("spec.Delete") /\ ~DeleteRunning

VmStepRaised == \E i \in 1..NumVms : <<"DeleteVm", i>> \in errs

TeardownExceptions == {"DeleteVm", "firewall.DisallowAllPorts", "network.Delete"}

\* RunBenchmark has been left (by return or by an exception).
Exited == pc = "done"

\* C1: in a run_stage=all invocation, once the spec has been constructed,
\* every exit of RunBenchmark (return or exception) leaves deleted = TRUE,
\* with DeleteVm handed to the fan-out exactly once for every VM of vms,
\* firewall.DisallowAllPorts called exactly once and network.Delete called
\* exactly once for every zone of networks.
C1_ExitLeavesSpecDeleted ==
  (Exited /\ run_stage = STAGE_ALL /\ spec.exists) =>
    /\ spec.deleted
    /\ \A i \in 1..NumVms : VmDeleteCalls(i) = 1
    /\ FirewallCalls = 1
    /\ \A z \in spec.networks : NetworkDeleteCalls(z) = 1

\* C1 witness: RunBenchmark left by the exception of benchmark.Run, with a
\* spec of two VMs in two zones torn down.
C1_Witness ==
  /\ Exited /\ run_stage = STAGE_ALL /\ spec.exists
  /\ exc = "benchmark.Run"
  /\ NumVms = 2 /\ Cardinality(spec.networks) = 2
  /\ spec.deleted
  /\ \A i \in 1..NumVms : VmDeleteCalls(i) = 1

\* C2: a call of Delete that follows an earlier call of Delete on the same
\* spec makes no call on any VM, firewall or network handle, returns at once
\* and leaves deleted = TRUE.
C2_SecondDeleteIsNoOp ==
  [][(pc = "D_enter" /\ Called("spec.Delete")) =>
       /\ calls' = calls
       /\ errs' = errs
       /\ spec'.deleted
       /\ pc' \in {"timers", "done"}]_vars

\* C2 witness: Delete was called twice (by DoCleanupPhase, then by the
\* finally clause) on a spec with VMs and networks; each handle was called
\* once.
C2_Witness ==
  /\ Exited
  /\ Count("spec.Delete", 0) = 2
  /\ spec.deleted
  /\ NumVms >= 1 /\ spec.networks # {}
  /\ \A i \in 1..NumVms : VmDeleteCalls(i) = 1
  /\ \A z \in spec.networks : NetworkDeleteCalls(z) = 1
  /\ FirewallCalls = 1

\* C3: when the VM-deletion step of Delete raised, Delete has still called
\* firewall.DisallowAllPorts and network.Delete for every zone, and deleted
\* is TRUE once Delete is over.
C3_VmFailureDoesNotStopTeardown ==
  (DeleteFinished /\ VmStepRaised) =>
    /\ FirewallCalls >= 1
    /\ \A z \in spec.networks : NetworkDeleteCalls(z) >= 1
    /\ spec.deleted

\* C3 witness: one of two VMs failed to delete, the other did not, and the
\* firewall and both networks were torn down.
C3_Witness ==
  /\ DeleteFinished
  /\ NumVms = 2
  /\ <<"DeleteVm", 1>> \in errs /\ <<"DeleteVm", 2>> \notin errs
  /\ Cardinality(spec.networks) = 2
  /\ FirewallCalls = 1
  /\ \A z \in spec.networks : NetworkDeleteCalls(z) = 1
  /\ spec.deleted

\* C4: in stages all and cleanup, whatever fails in the VM step, the
\* firewall step and the network deletions, Delete ends with deleted = TRUE
\* and no exception of the teardown leaves it.
C4_DeleteNeverRaises ==
  DeleteFinished =>
    /\ spec.deleted
    /\ exc \notin TeardownExceptions

\* C4 witness: every teardown call failed and Delete still returned.
C4_Witness ==
  /\ DeleteFinished
  /\ NumVms >= 1 /\ spec.networks # {}
  /\ \A i \in 1..NumVms : <<"DeleteVm", i>> \in errs
  /\ <<"firewall.DisallowAllPorts", 0>> \in errs
  /\ \A z \in spec.networks : <<"network.Delete", z>> \in errs
  /\ spec.deleted
  /\ run_stage = STAGE_CLEANUP

\* C5: whichever zones' network.Delete fail, network.Delete is called
\* exactly once for every zone of networks.
C5_EveryNetworkDeletedOnce ==
  DeleteFinished => \A z \in spec.networks : NetworkDeleteCalls(z) = 1

\* C5 witness: zone 1's network failed to delete, zone 2's was deleted.
C5_Witness ==
  /\ DeleteFinished
  /\ spec.networks = {1, 2}
  /\ <<"network.Delete", 1>> \in errs
  /\ <<"network.Delete", 2>> \notin errs
  /\ NetworkDeleteCalls(1) = 1 /\ NetworkDeleteCalls(2) = 1

C7_RunExceptionIsRaised ==
  (Exited /\ Raised("benchmark.Run")) =>
    /\ exc = "benchmark.Run"
    /\ run_stage = STAGE_ALL => Called("spec.Delete")
    /\ run_stage = STAGE_RUN => Called("PickleSpec")

\* C7 amended: when benchmark.Run raised, RunBenchmark ends by raising,
\* after spec.Delete (stage all) or spec.PickleSpec (stage run) was called
\* on the exit path; it raises the exception of benchmark.Run unless that
\* PickleSpec raised, whose exception is then the one raised.
C7_RunExceptionUnlessPickleRaised ==
  (Exited /\ Raised("benchmark.Run")) =>
    /\ exc = IF Raised("PickleSpec") THEN "PickleSpec" ELSE "benchmark.Run"
    /\ Raised("PickleSpec") => run_stage = STAGE_RUN
    /\ run_stage = STAGE_ALL => Called("spec.Delete")
    /\ run_stage = STAGE_RUN => Called("PickleSpec")

\* C7 witness: stage run on a loaded spec, benchmark.Run raised, the spec
\* was pickled on the exit path and the exception of Run left RunBenchmark.
C7_Witness ==
  /\ Exited /\ run_stage = STAGE_RUN
  /\ Raised("benchmark.Run")
  /\ Called("PickleSpec") /\ ~Raised("PickleSpec")
  /\ exc = "benchmark.Run"
  /\ disk.exists /\ NumVms >= 1

CreateCalls ==
  ({"network.Create"} \X (1..MaxZones)) \cup ({"vm.Create"} \X (1..MaxVms))

CreateCalled == \E c \in CreateCalls : calls[c] > 0

\* C8 as stated: in every state in which some network.Create or vm.Create
\* has been called, a persisted record of the spec exists on disk.
C8_RecordExistsOnceCreated == CreateCalled => disk.exists

\* C8 amended: the spec is persisted before spec.Prepare starts, and every
\* network.Create and vm.Create call is made while a persisted record of
\* that spec exists on disk (the exit path of stage prepare pickles again,
\* and a failure of that PickleSpec can leave no loadable record).
C8_RecordExistsAtEveryCreate ==
  [][(\E c \in CreateCalls : calls'[c] = calls[c] + 1) =>
       /\ disk.exists
       /\ disk.vms = spec.vms
       /\ disk.networks = spec.networks
       /\ Called("PickleSpec") /\ ~Raised("PickleSpec")]_vars

\* C8 witness: spec.Prepare is creating the second of two VMs and the record
\* pickled before it started is on disk.
C8_Witness ==
  /\ pc = "P_vms"
  /\ NumVms = 2 /\ Cardinality(todo) = 1
  /\ \E c \in CreateCalls : calls[c] > 0
  /\ disk.exists /\ disk.vms = spec.vms
  /\ Called("PickleSpec") /\ ~Raised("PickleSpec")

\* C9: when CheckPrerequisites raised, RunBenchmark is left with that
\* exception, no spec was constructed or loaded, nothing was persisted and
\* no call was made on any VM, network or firewall handle.
C9_PrerequisiteFailureTouchesNothing ==
  Raised("CheckPrerequisites") =>
    /\ Exited
    /\ exc = "CheckPrerequisites"
    /\ ~spec.exists
    /\ ~Called("BenchmarkSpec") /\ ~Called("GetSpecFromFile")
    /\ ~Called("PickleSpec")
    /\ calls = NoCalls

\* C9 witness: CheckPrerequisites raised in a stage-all invocation that runs
\* after a prepare-stage invocation left a record on disk.
C9_Witness ==
  /\ Raised("CheckPrerequisites")
  /\ Exited /\ exc = "CheckPrerequisites"
  /\ run_stage = STAGE_ALL
  /\ disk.exists

\* The calls the order of C10 is about, and their place in it.
HookOps == {"CheckPrerequisites", "spec.Prepare", "benchmark.Prepare",
            "before_run_hook", "benchmark.Run", "benchmark.Cleanup",
            "spec.Delete"}

Rank(op) ==
  CASE op = "CheckPrerequisites" -> 1
    [] op = "spec.Prepare" -> 2
    [] op = "benchmark.Prepare" -> 3
    [] op = "before_run_hook" -> 4
    [] op = "benchmark.Run" -> 5
    [] op = "benchmark.Cleanup" -> 6
    [] op = "spec.Delete" -> 7

IsHookOp(e) == e[1] \in HookOps

HookCalls == SelectSeq(trace, IsHookOp)

HookNames == [i \in 1..Len(HookCalls) |-> HookCalls[i][1]]

\* Later calls never precede earlier ones in the order; only the before-run
\* hooks (by rising index) and spec.Delete occur more than once.
HookOrderKept ==
  \A i, j \in 1..Len(HookCalls) :
    i < j =>
      \/ Rank(HookCalls[i][1]) < Rank(HookCalls[j][1])
      \/ /\ HookCalls[i][1] = "before_run_hook"
         /\ HookCalls[j][1] = "before_run_hook"
         /\ HookCalls[i][2] < HookCalls[j][2]
      \/ /\ HookCalls[i][1] = "spec.Delete"
         /\ HookCalls[j][1] = "spec.Delete"

\* After a call of the order raised, only the teardown is called.
NoHookAfterRaise ==
  \A i \in failed :
    trace[i][1] \in HookOps =>
      \A j \in (i + 1)..Len(trace) :
        trace[j][1] \in HookOps => trace[j][1] = "spec.Delete"

\* spec.Prepare has returned when benchmark.Prepare is called: every network
\* and every VM has had its Create call.
PrepareReturnedFirst ==
  Called("benchmark.Prepare") =>
    /\ \A z \in spec.networks : calls[<<"network.Create", z>>] = 1
    /\ \A i \in 1..NumVms : calls[<<"vm.Create", i>>] = 1
    /\ pc \notin {"prepare", "P_net", "P_vms"}

FailureFree == failed = {} /\ errs = {}

RepeatHook(k) == [i \in 1..k |-> "before_run_hook"]

\* C10: in stage all the sequencer calls CheckPrerequisites (when the
\* benchmark has one), spec.Prepare, benchmark.Prepare, the before-run hooks,
\* benchmark.Run, benchmark.Cleanup and spec.Delete in this order, each after
\* the previous one returned; a failure-free invocation makes all of them
\* (and the exit path calls spec.Delete once more); after one of them raised
\* only spec.Delete is still called.
C10_HooksInStrictOrder ==
  run_stage = STAGE_ALL =>
    /\ HookOrderKept
    /\ NoHookAfterRaise
    /\ PrepareReturnedFirst
    /\ (Exited /\ FailureFree /\ trace[1] = Ev("GetInfo", 1)) =>
         \E p \in {0, 1}, k \in 0..MaxHooks :
           HookNames =
             [i \in 1..p |-> "CheckPrerequisites"]
               \o <<"spec.Prepare", "benchmark.Prepare">>
               \o RepeatHook(k)
               \o <<"benchmark.Run", "benchmark.Cleanup",
                    "spec.Delete", "spec.Delete">>

\* C10 witness: a failure-free stage-all invocation with a prerequisite
\* check, a before-run hook and a spec of two VMs has ended.
C10_Witness ==
  /\ run_stage = STAGE_ALL /\ Exited /\ FailureFree /\ exc = "none"
  /\ NumVms = 2 /\ spec.deleted
  /\ HookNames = <<"CheckPrerequisites", "spec.Prepare", "benchmark.Prepare",
                   "before_run_hook", "benchmark.Run", "benchmark.Cleanup",
                   "spec.Delete", "spec.Delete">>

\* C12 as stated: in stage all, when benchmark.Prepare set
\* spec.always_call_cleanup and then raised, benchmark.Cleanup is called
\* before RunBenchmark is left (and so before the teardown is over).
C12_CleanupCalledWhenAlwaysCallCleanup ==
  (/\ Exited /\ run_stage = STAGE_ALL
   /\ Raised("benchmark.Prepare")
   /\ spec.always_call_cleanup) =>
    Called("benchmark.Cleanup")

\* The last call of the sequencer so far.
LastCall == IF trace = <<>> THEN Ev("none", 0) ELSE trace[Len(trace)]

LastCallReturned == Len(trace) \notin failed

Loaded == Called("GetSpecFromFile") /\ ~Raised("GetSpecFromFile")

DeleteOps == {"DeleteVm", "firewall.DisallowAllPorts", "network.Delete"}

\* The deletion calls made so far in this invocation.
DeletionCallsMade == {c \in ResourceCalls : c[1] \in DeleteOps /\ calls[c] > 0}

\* The deletion calls Delete issues on a spec: DeleteVm for every VM, the
\* firewall's DisallowAllPorts, network.Delete for every zone of networks.
DeletionCallsOf(sp) ==
  ({"DeleteVm"} \X (1..Len(sp.vms)))
    \cup {<<"firewall.DisallowAllPorts", 0>>}
    \cup ({"network.Delete"} \X sp.networks)

ResourceOps == {"spec.Prepare", "benchmark.Prepare", "benchmark.Run",
                "benchmark.Cleanup", "spec.Delete"}

IsResourceOp(e) == e[1] \in ResourceOps

ResourceOpsLogged ==
  LET s == SelectSeq(trace, IsResourceOp) IN [i \in 1..Len(s) |-> s[i][1]]

\* Every call of the run on a resource handle of the spec, made exactly once.
EveryHandleCalledOnce(sp) ==
  [c \in ResourceCalls |->
     IF \/ c \in DeletionCallsOf(sp)
        \/ c \in {"network.Create"} \X sp.networks
        \/ c \in {"vm.Create"} \X (1..Len(sp.vms))
       THEN 1 ELSE 0]

\* A run that is over: the single invocation of stage all, or the cleanup
\* invocation that follows the prepare and run invocations.
RunOver == Exited /\ run_stage \in CleanupStages

\* No call failed and every invocation of the run passed validation.
RunFailureFree ==
  FailureFree /\ exc = "none" /\ Count("GetInfo", 0) = 0

\* C16: a failure-free run logs the same sequence of resource-affecting
\* calls whether it is one run_stage=all invocation or the three
\* invocations prepare, run, cleanup with one run_uri: spec.Prepare (one
\* network.Create per zone, one vm.Create per VM), benchmark.Prepare,
\* benchmark.Run, benchmark.Cleanup, spec.Delete (one DeleteVm per VM, the
\* firewall call, one network.Delete per zone) and the exit path's second
\* spec.Delete, which does nothing; both end with deleted = TRUE and every
\* handle torn down exactly once.
C16_StagedRunsLikeSingleShot ==
  (RunOver /\ RunFailureFree) =>
    /\ ResourceOpsLogged =
         <<"spec.Prepare", "benchmark.Prepare", "benchmark.Run",
           "benchmark.Cleanup", "spec.Delete", "spec.Delete">>
    /\ calls = EveryHandleCalledOnce(spec)
    /\ spec.deleted

\* C16 witness: the cleanup invocation of a staged, failure-free run of a
\* spec with two VMs in two zones is over: three invocations were made and
\* every handle was created and torn down once.
C16_Witness ==
  /\ RunOver /\ RunFailureFree
  /\ run_stage = STAGE_CLEANUP
  /\ Count("GetInfo", 1) = 3
  /\ Count("GetSpecFromFile", 0) = 2
  /\ NumVms = 2 /\ spec.networks = {1, 2}
  /\ spec.deleted
  /\ \A c \in DeletionCallsOf(spec) : calls[c] = 1

\* C13: the spec GetSpecFromFile returns has deleted = FALSE, also when the
\* record was pickled with deleted = TRUE; so the Delete of a cleanup-stage
\* invocation on a loaded spec is not stopped by its guard: it makes every
\* deletion call of the spec and sets deleted.
C13_LoadedSpecIsNotDeleted ==
  /\ (LastCall = Ev("GetSpecFromFile", 0) /\ LastCallReturned) =>
       spec.exists /\ ~spec.deleted
  /\ (run_stage = STAGE_CLEANUP /\ Loaded /\ DeleteFinished) =>
       /\ spec.deleted
       /\ DeletionCallsMade = DeletionCallsOf(spec)

\* C13 witness: a spec of two VMs was pickled after its teardown, with
\* deleted = TRUE; the cleanup-stage invocation that loaded it has made
\* every deletion call again.
C13_Witness ==
  /\ run_stage = STAGE_CLEANUP /\ Loaded /\ DeleteFinished
  /\ disk.exists /\ disk.deleted
  /\ NumVms = 2 /\ spec.networks # {}
  /\ \A c \in DeletionCallsOf(spec) : calls[c] = 1

\* A step of RunBenchmark's exit path that pickled the spec and returned.
ExitPickleReturned ==
  /\ pc = "finally" /\ pc' = "done"
  /\ Len(trace') = Len(trace) + 1
  /\ trace'[Len(trace')] = Ev("PickleSpec", 0)
  /\ Len(trace') \notin failed'

RunBenchmarksOver == rbs_pc = "done"

\* C11 as stated: when the RunBenchmark of one scheduled benchmark raised,
\* RunBenchmarks is left only after the RunBenchmark of every other
\* scheduled benchmark was called and ended, for parallelism = 1 and for
\* parallelism > 1.
C11_OtherBenchmarksStillRun ==
  (RunBenchmarksOver /\ BenchmarksIn("raised") # {}) =>
    \A i \in 1..Len(benchmarks) : benchmarks[i] \in Outcomes

\* C11, the half that holds: with parallelism > 1 every scheduled benchmark
\* is run to its end whichever of them raise.
C11_ThreadedBenchmarksStillRun ==
  (RunBenchmarksOver /\ parallelism > 1) =>
    \A i \in 1..Len(benchmarks) : benchmarks[i] \in Outcomes

\* __init__ has returned a spec.
Constructed == init_pc = "done"

ConstructedByFlags == Constructed /\ ~self.config

VmIndices == 1..Len(self.vms)

CloudVmIndices == {i \in VmIndices : ~self.vms[i].static}

\* C18: after flag-driven construction with Z >= 1 zones and N VMs, vms has
\* N VMs in creation order, the VM at index i (from 0) that was made for the
\* run has zone zones[min(i, Z - 1)] (a VM handed out by the static pool
\* keeps its own), and vm_dict['default'] is exactly vms, in that order.
C18_VmZonesFollowZoneList ==
  ConstructedByFlags =>
    /\ Len(self.zones) >= 1
    /\ Len(self.vms) = self.num_vms
    /\ \A i \in VmIndices : self.vms[i].id = i
    /\ \A i \in CloudVmIndices :
         self.vms[i].zone = self.zones[Min(i - 1, Len(self.zones) - 1) + 1]
    /\ self.vm_dict[0] = self.vms

\* C18 witness: zones = [z1, z2] and N = 3 with an empty static pool gave
\* VMs in z1, z2, z2, all of them in vm_dict['default'].
C18_Witness ==
  /\ ConstructedByFlags
  /\ self.zones = <<1, 2>> /\ self.num_vms = 3
  /\ CloudVmIndices = {1, 2, 3}
  /\ [i \in 1..3 |-> self.vms[i].zone] = <<1, 2, 2>>
  /\ self.vm_dict[0] = self.vms

VmZones == {self.vms[i].zone : i \in VmIndices}

\* C19 as stated: after construction by either path, the zones that have a
\* network handle are exactly the zones of the VMs of vms.
C19_NetworkZonesAreVmZones ==
  Constructed => DOMAIN self.networks = VmZones

\* C19 amended: after flag-driven construction the zones that have a
\* network handle are exactly the zones of the VMs that were not taken from
\* the static pool, and each of those VMs holds the handle of its zone; after
\* topology-driven construction they are exactly the zones of the node
\* sections, whether or not a section has VMs.
C19_NetworkZonesAreManagedZones ==
  Constructed =>
    /\ DOMAIN self.networks =
         IF self.config
           THEN {sections[s].z : s \in 1..Len(sections)}
           ELSE {self.vms[i].zone : i \in CloudVmIndices}
    /\ \A i \in CloudVmIndices :
         self.vms[i].network = self.networks[self.vms[i].zone]
    /\ \A z \in DOMAIN self.networks : self.networks[z].zone = z

\* C19 witness: flag-driven construction of three VMs over zones [z1, z2],
\* the first from the static pool, the others made in z2: networks has a
\* handle for z2 only, held by both of them, and none for the static VM.
C19_Witness ==
  /\ ConstructedByFlags
  /\ self.zones = <<1, 2>>
  /\ Len(self.vms) = 3
  /\ self.vms[1].static /\ CloudVmIndices = {2, 3}
  /\ DOMAIN self.networks = {2}
  /\ self.vms[2].network = self.networks[2]
  /\ self.vms[3].network = self.networks[2]

\* The groups of vm_dict that hold a VM.
GroupsOf(vm) ==
  {g \in DOMAIN self.vm_dict :
     \E k \in 1..Len(self.vm_dict[g]) : self.vm_dict[g][k] = vm}

\* C20: after construction by either path, the VMs of vms are distinct
\* objects, each of them is in exactly one group of vm_dict, and every VM of
\* a group of vm_dict is in vms.
C20_EveryVmInOneGroup ==
  Constructed =>
    /\ \A i, j \in VmIndices : i # j => self.vms[i] # self.vms[j]
    /\ \A i \in VmIndices : Cardinality(GroupsOf(self.vms[i])) = 1
    /\ \A g \in DOMAIN self.vm_dict :
         \A k \in 1..Len(self.vm_dict[g]) :
           \E i \in VmIndices : self.vms[i] = self.vm_dict[g][k]

\* C20 witness: flag-driven construction of three VMs, one of them static:
\* all three are in the group 'default' and in no other.
C20_Witness ==
  /\ ConstructedByFlags
  /\ Len(self.vms) = 3 /\ Cardinality(CloudVmIndices) = 2
  /\ \A i \in VmIndices : GroupsOf(self.vms[i]) = {0}
  /\ Len(self.vm_dict[0]) = 3
\* The spec RunBenchmark's model constructs in one step (NewBenchmarkSpec) is
\* the spec the step-by-step flag path ends with, for zones z1..zn.
FlagPathAgreesWithNewBenchmarkSpec ==
  (ConstructedByFlags /\ self.zones = [k \in 1..Len(self.zones) |-> k]) =>
    LET one == NewBenchmarkSpec(self.num_vms, Len(self.zones),
                                Cardinality(VmIndices \ CloudVmIndices))
    IN /\ Len(one.vms) = Len(self.vms)
       /\ \A i \in VmIndices :
            /\ one.vms[i].static = self.vms[i].static
            /\ one.vms[i].zone = self.vms[i].zone
       /\ one.networks = DOMAIN self.networks

\* C27: when the dictionary GetInfo returned lacks 'scratch_disk' or
\* 'num_machines', RunBenchmark has returned without an exception, and
\* GetInfo is the only call it made: no prerequisite check, no spec
\* constructed or loaded, no call on a resource handle, no second attempt.
C27_InvalidInfoSkipsBenchmark ==
  Count("GetInfo", 0) > 0 =>
    /\ pc = "done"
    /\ exc = "none"
    /\ trace = <<Ev("GetInfo", 0)>>
    /\ ~spec.exists
    /\ calls = NoCalls
    /\ errs = {}

C27_Witness ==
  /\ Count("GetInfo", 0) = 1
  /\ Exited
  /\ disk.exists

\* What the invocation has done to the handles of the spec.
PrepareVmRaised == \E i \in 1..NumVms : <<"vm.Create", i>> \in errs

DeleteVmAttempted == \A i \in 1..NumVms : VmDeleteCalls(i) >= 1

NetworkDeleteCalled == \E z \in 1..MaxZones : NetworkDeleteCalls(z) > 0

\* C24: once the pipeline of some VM has raised and the fan-out of the VMs
\* is over, spec.Prepare() has raised, and neither the benchmark's Prepare
\* hook nor its Run hook is called in this invocation, which ends with an
\* exception.
C24_PrepareVmFailureFailsPrepare ==
  (PrepareVmRaised /\ pc # "P_vms") =>
    /\ Raised("spec.Prepare")
    /\ ~Called("benchmark.Prepare")
    /\ ~Called("before_run_hook")
    /\ ~Called("benchmark.Run")
    /\ Exited => exc # "none"

\* C24 witness: two VMs, the pipeline of the first raised and that of the
\* second did not; RunBenchmark is left with the exception of spec.Prepare.
C24_Witness ==
  /\ Exited
  /\ run_stage = STAGE_ALL
  /\ NumVms = 2
  /\ <<"vm.Create", 1>> \in errs /\ <<"vm.Create", 2>> \notin errs
  /\ calls[<<"vm.Create", 2>>] = 1
  /\ exc = "spec.Prepare"

\* C26: the three steps of Delete are sequential.  While the VM fan-out
\* runs, neither the firewall nor a network has been called; the firewall
\* step starts only when DeleteVm has been called for every VM and every
\* thread has ended; a network is deleted only after the one call of
\* firewall.DisallowAllPorts has returned or raised.
C26_DeleteStepsAreSequential ==
  /\ pc = "D_vms" => FirewallCalls = 0 /\ ~NetworkDeleteCalled
  /\ pc = "D_fw" => todo = {} /\ DeleteVmAttempted /\ ~NetworkDeleteCalled
  /\ FirewallCalls > 0 => DeleteVmAttempted /\ pc # "D_vms"
  /\ NetworkDeleteCalled => FirewallCalls = 1 /\ pc \notin {"D_vms", "D_fw"}

\* C26 witness: the loop over the networks is running after a VM fan-out in
\* which one DeleteVm raised and a firewall call that raised.
C26_Witness ==
  /\ pc = "D_net"
  /\ NumVms = 2
  /\ <<"DeleteVm", 2>> \in errs
  /\ <<"firewall.DisallowAllPorts", 0>> \in errs
  /\ NetworkDeleteCalled
  /\ todo # {}

\* C22: whenever deleted is TRUE, DeleteVm has been attempted for every VM
\* of vms, firewall.DisallowAllPorts has been attempted and Delete has been
\* attempted on the network handle of every zone, whichever of them raised.
C22_DeletedImpliesAllAttempted ==
  spec.deleted =>
    /\ DeleteVmAttempted
    /\ FirewallCalls >= 1
    /\ \A z \in spec.networks : NetworkDeleteCalls(z) >= 1

\* C22 witness: deleted is TRUE after a teardown in which the deletion of
\* one of two VMs raised inside the fan-out, and a later direct call on the
\* spec has left it so.
C22_Witness ==
  /\ spec.deleted
  /\ Called("direct")
  /\ NumVms = 2
  /\ <<"DeleteVm", 1>> \in errs /\ <<"DeleteVm", 2>> \notin errs
  /\ Cardinality(spec.networks) = 2

ConfigurationErrorTouchesNothing ==
  Raised("BenchmarkSpec") =>
    /\ calls = NoCalls
    /\ ~spec.exists
    /\ ~Called("spec.Prepare")
    /\ Exited => exc \in {"BenchmarkSpec", "AttributeError"}

\* C28 as stated: when the spec construction of one benchmark raised the
\* configuration error for an unsupported os_type, that benchmark is skipped
\* and RunBenchmarks is left only after the RunBenchmark of every other
\* scheduled benchmark was called and ended.
C28_UnsupportedOsSkipsOneBenchmark ==
  (RunBenchmarksOver /\ BenchmarksIn("unsupported") # {}) =>
    \A i \in 1..Len(benchmarks) : benchmarks[i] \in Outcomes

\* RunBenchmarks has made its check of FLAGS.run_uri.
RunUriChecked == rbs_pc # "run_uri"

NoBenchmarkStarted ==
  /\ \A i \in 1..Len(benchmarks) : benchmarks[i] = "scheduled"
  /\ pc = "idle" /\ ~spec.exists
  /\ init_pc = "idle"

\* C29: RunBenchmarks returns 1, with no benchmark run and no spec
\* constructed, when (a) the run_uri given is not alphanumeric or is longer
\* than 10 characters, (b) no run_uri is given and run_stage is run or
\* cleanup, (c) an unknown benchmark name is requested; and when no run_uri
\* is given and run_stage is all or prepare, the run_uri used is a generated
\* one of 8 alphanumeric characters.
C29_EntryChecksReturnOne ==
  /\ (RunUriChecked /\ run_uri.given
        /\ (~IsAlnum(run_uri.chars) \/ Len(run_uri.chars) > 10)) =>
       exit_status = "1"
  /\ (RunUriChecked /\ ~run_uri.given
        /\ run_stage \in {STAGE_RUN, STAGE_CLEANUP}) =>
       exit_status = "1"
  /\ (\E name \in requested : name \notin BenchmarkNames \cup BenchmarkSets) =>
       exit_status = "1"
  /\ exit_status = "1" => rbs_pc = "done" /\ NoBenchmarkStarted
  /\ (RunUriChecked /\ ~run_uri.given
        /\ run_stage \in {STAGE_ALL, STAGE_PREPARE}) =>
       /\ Len(run_uri.chars) = 8
       /\ IsAlnum(run_uri.chars)
       /\ exit_status = "1" => ListUnknownBenchmarks(requested) # {}

\* C29 witness: a given run_uri of eleven letters was refused with status 1
\* while three benchmarks were scheduled.
C29_Witness ==
  /\ run_uri.given
  /\ Len(run_uri.chars) = 11
  /\ IsAlnum(run_uri.chars)
  /\ exit_status = "1"
  /\ Len(benchmarks) = 3
  /\ NoBenchmarkStarted

\* A run under a generated run_uri went through its benchmarks and returned.
GeneratedRunUriUsed ==
  /\ ~run_uri.given
  /\ Len(run_uri.chars) = 8
  /\ exit_status = "None"
  /\ BenchmarksIn("returned") # {}

\* The place of a call in the pipeline of PrepareVm as the code has it.
PrepRank(step) ==
  CASE step = "vm.Create" -> 1
    [] step = "winrm_port" -> 2
    [] step = "smb_port" -> 3
    [] step = "ssh_port" -> 4
    [] step = "vm.AddMetadata" -> 5
    [] step = "vm.WaitForBootCompletion" -> 6
    [] step = "vm.Startup" -> 7
    [] step = "vm.SetupLocalDisks" -> 8
    [] OTHER -> 9

PrepVms == 1..Len(prep)

CalledBefore(v, i, step) == \E j \in 1..(i - 1) : prep[v].log[j] = step

C23_StripingOfScratchDisks ==
  \A v \in 1..Len(scratch_vms) :
    LET vm == scratch_vms[v]
        k == scratch.scratch_disk
        striped_locally == /\ scratch.scratch_disk_type = "local"
                           /\ k > 0
                           /\ ~scratch.present
    IN vm.visited =>
         /\ Len(vm.disk_specs) = k
         /\ \A i \in 1..k :
              /\ vm.disk_specs[i].mount_point = <<"/scratch", Decimal(i - 1)>>
              /\ striped_locally =>
                   /\ vm.disk_specs[i].num_striped_disks * k <= vm.max_local_disks
                   /\ vm.max_local_disks < (vm.disk_specs[i].num_striped_disks + 1) * k
              /\ (striped_locally /\ vm.max_local_disks = 8 /\ k = 2) =>
                   vm.disk_specs[i].num_striped_disks = 4
              /\ ~striped_locally =>
                   vm.disk_specs[i].num_striped_disks = scratch.num_striped_disks

\* C23 witness: local scratch disks, two of them per VM, num_striped_disks
\* not given: a VM with 8 local disks stripes 4 per scratch disk and one
\* with 5 local disks stripes 2.
C23_Witness ==
  /\ scratch.scratch_disk_type = "local"
  /\ scratch.scratch_disk = 2
  /\ ~scratch.present
  /\ scratch.num_striped_disks = 1
  /\ Len(scratch_vms) = 2
  /\ scratch_vms[1].max_local_disks = 8 /\ scratch_vms[2].max_local_disks = 5
  /\ scratch_vms[1].visited /\ scratch_vms[2].visited
  /\ scratch_vms[1].disk_specs[2].num_striped_disks = 4
  /\ scratch_vms[2].disk_specs[1].num_striped_disks = 2
  /\ scratch_vms[2].disk_specs[2].mount_point = <<"/scratch", "1">>

\* The VMs of region r.
AwsVmsOf(r) == {v \in 1..Len(aws_vms) : aws_vms[v].region = r}

\* Some VM's latest ImportKeyfile call for region r returned normally.
ImportCompleted(r) ==
  \E v \in AwsVmsOf(r) : aws_vms[v].last \in {"imported", "skipped"}

C30_BothCompleted ==
  /\ Len(aws_vms) = 2
  /\ aws_vms[1].region = aws_vms[2].region
  /\ aws_vms[1].last = "imported" /\ aws_vms[2].last = "skipped"
  /\ aws_vms[1].pc = "idle" /\ aws_vms[2].pc = "idle"
  /\ aws_cmds.by_region[aws_vms[1].region] =
       [NoCommands EXCEPT !.import_issued = 1, !.import_returned = 1]

\* The construction of the spec, or its loading from the file, raised.
NoSpecObtained == Raised("BenchmarkSpec") \/ Raised("GetSpecFromFile")

\* C40: when RunBenchmark has ended under run_stage prepare or run without a
\* spec object (BenchmarkSpec(...) or GetSpecFromFile raised), no PickleSpec
\* call was made on the exit path and the exception that leaves RunBenchmark
\* is the one the construction or the loading raised.
C40_OriginalErrorPropagatesWithoutSpec ==
  (pc = "done" /\ run_stage \in {STAGE_PREPARE, STAGE_RUN} /\ NoSpecObtained) =>
    /\ ~Called("PickleSpec")
    /\ exc \in {"BenchmarkSpec", "GetSpecFromFile"}

\* The part of C40 that does hold: with no spec object nothing is persisted.
C40_NothingPersistedWithoutSpec ==
  (pc = "done" /\ NoSpecObtained) => ~Called("PickleSpec")

\* Under run_stage all or cleanup the finally clause tests `if spec` and the
\* original error leaves RunBenchmark.
C40_OriginalErrorWhenFinallyDeletes ==
  (pc = "done" /\ run_stage \in {STAGE_ALL, STAGE_CLEANUP} /\ NoSpecObtained) =>
    exc \in {"BenchmarkSpec", "GetSpecFromFile"}

\* The thread of VM v has left DeleteVm, by return or by an exception.
DeleteVmEnded(v) == prep[v].pc \in {"returned", "raised"}

\* The calls of a DeleteVm thread, in the order the claim gives them.
DeleteVmRank(step) ==
  CASE step = "vm.PackageCleanup" -> 1
    [] step = "vm.Delete" -> 2
    [] step = "vm.DeleteScratchDisks" -> 3

\* C33: the calls of DeleteVm on a VM are made in the order PackageCleanup,
\* vm.Delete, vm.DeleteScratchDisks, and every VM on which vm.Delete was
\* called has had vm.DeleteScratchDisks called by the time its DeleteVm has
\* ended, also when vm.Delete raised.
C33_ScratchDisksDeletedWithEveryVm ==
  \A v \in PrepVms :
    /\ \A i, j \in 1..Len(prep[v].log) :
         i < j => DeleteVmRank(prep[v].log[i]) < DeleteVmRank(prep[v].log[j])
    /\ (DeleteVmEnded(v) /\ \E i \in 1..Len(prep[v].log) :
                              prep[v].log[i] = "vm.Delete") =>
         \E j \in 1..Len(prep[v].log) : prep[v].log[j] = "vm.DeleteScratchDisks"

\* The part of C33 that holds: the order of the calls, vm.Delete only after
\* a PackageCleanup that returned, vm.DeleteScratchDisks only after a
\* vm.Delete that returned.
C33_DeleteVmOrder ==
  \A v \in PrepVms :
    /\ \A i, j \in 1..Len(prep[v].log) :
         i < j => DeleteVmRank(prep[v].log[i]) < DeleteVmRank(prep[v].log[j])
    /\ prep[v].pc = "returned" =>
         /\ Len(prep[v].log) >= 2
         /\ prep[v].log[Len(prep[v].log)] = "vm.DeleteScratchDisks"
         /\ prep[v].log[Len(prep[v].log) - 1] = "vm.Delete"

\* A handle stored for a zone is never replaced by another: the zone has had
\* one network_class(zone) call.
HandleKept ==
  \A z \in DOMAIN self.networks :
    z \in DOMAIN self'.networks /\ self'.networks[z] = self.networks[z]

\* Every VM of the spec references the handle stored for its zone.
VmsUseStoredHandle ==
  \A i \in 1..Len(self.vms) :
    /\ self.vms[i].zone \in DOMAIN self.networks
    /\ self.vms[i].network = self.networks[self.vms[i].zone]

\* C34: on the config path, whatever the interleaving of the threads of
\* CreateVirtualMachineFromNodeSection, one network handle is made per zone
\* (a stored handle is never replaced) and every VM references the handle
\* that networks holds for its zone.
C34_OneNetworkHandlePerZone == [][HandleKept]_vars /\ []VmsUseStoredHandle

\* The vm_spec a thread has built (line 293-298) holds the handle that
\* networks holds for its zone.
C34_VmSpecUsesStoredHandle ==
  \A s \in 1..Len(sections) :
    sections[s].pc \in {"extend", "done", "raised"} =>
      sections[s].net = self.networks[sections[s].z]

\* No value occurs twice in the list.
NoDuplicates(list) ==
  \A i, j \in 1..Len(list) : list[i] = list[j] => i = j

\* C35: when the threads of all node sections have been joined, the lists
\* zones, image and machine_type hold every value a section used, each once,
\* and vms has as many VMs as the sections count together.
C35_ListsHoldEachValueOnce ==
  init_pc = "done" =>
    /\ NoDuplicates(self.zones)
    /\ NoDuplicates(self.image)
    /\ NoDuplicates(self.machine_type)
    /\ \A s \in 1..Len(sections) :
         /\ InList(sections[s].z, self.zones)
         /\ InList(sections[s].image, self.image)
         /\ InList(sections[s].vm_type, self.machine_type)
    /\ \A s \in 1..Len(sections) :
         \A k \in 1..Len(sections[s].vms) :
           Cardinality({i \in 1..Len(self.vms) :
                          self.vms[i] = sections[s].vms[k]}) = 1
    /\ \A i \in 1..Len(self.vms) :
         \E s \in 1..Len(sections) : InList(self.vms[i], sections[s].vms)

\* The part of C35 that holds: no value a section used is missing from the
\* lists, and vms holds the VMs of the sections and no other.
C35_NoValueMissing ==
  init_pc = "done" =>
    /\ \A s \in 1..Len(sections) :
         /\ InList(sections[s].z, self.zones)
         /\ InList(sections[s].image, self.image)
         /\ InList(sections[s].vm_type, self.machine_type)
    /\ \A i \in 1..Len(self.vms) :
         \E s \in 1..Len(sections) : InList(self.vms[i], sections[s].vms)

\* C39: _WaitUntilReady makes at most 1 + 100 status requests, and when it
\* has returned, the value is True exactly when one of the requests
\* reported DONE.
C39_TrueIffAPollReportedDone ==
  /\ pb.polls <= 1 + 100
  /\ pb.pc = "returned" => (pb.result = "True" <=> pb.done_seen)

\* The part of C39 that holds: at most 1 + 100 requests are made, True is
\* returned only after a request that reported DONE, and False only after
\* the last of the 1 + 100 requests.
C39_PollsBoundedAndTrueMeansDone ==
  /\ pb.polls <= 1 + 100
  /\ pb.polls = pb.counter + (IF pb.pc = "start" THEN 0 ELSE 1)
  /\ pb.result = "True" => pb.status = "DONE"
  /\ pb.result = "False" => pb.polls = 1 + TIMEOUT * STEPS_PER_UNIT

\* C38: after any sequence of CreateScratchDisk calls on an AWS VM, every
\* local disk of a call that returned has a disk_number in
\* 1..max_local_disks, every remote disk a disk_number above
\* max_local_disks, the disk numbers of the VM are pairwise distinct, and a
\* call for local disks that would take the VM beyond max_local_disks local
\* disks has raised 'Not enough local disks.'.
C38_DiskNumbersAreDistinctAndInRange ==
  LET disks == disk_vm.scratch_disks
      max == disk_vm.max_local_disks
      last == disk_vm.last
  IN /\ \A i \in 1..Len(disks) :
          IF disks[i].disk_type = "local"
            THEN disks[i].disk_number >= 1 /\ disks[i].disk_number <= max
            ELSE disks[i].disk_number > max
     /\ \A i, j \in 1..Len(disks) :
          disks[i].disk_number = disks[j].disk_number => i = j
     /\ (last.disk_type = "local" /\ last.num_striped_disks > 0
           /\ last.local_before + last.num_striped_disks > max) =>
          last.outcome = "Not enough local disks."

\* C38 witness: a VM with two local disks has had both and two remote disks
\* created, numbered 1, 2 and 3, 4, and a further call for a local disk has
\* raised.
C38_Witness ==
  /\ disk_vm.max_local_disks = 2
  /\ Len(disk_vm.scratch_disks) = 4
  /\ \E i, j \in 1..4 :
       /\ disk_vm.scratch_disks[i] = [disk_type |-> "local", disk_number |-> 2]
       /\ disk_vm.scratch_disks[j] = [disk_type |-> "standard", disk_number |-> 3]
  /\ disk_vm.last.disk_type = "local"
  /\ disk_vm.last.outcome = "Not enough local disks."

\* C31: a call of _Exists that saw a status outside the known ones ended
\* at once with AwsUnknownStatusError; a call that ended on a pending
\* status or on an empty reservation list ended only because the
\* decorator's bound was used up, and then with the retryable error, never
\* with a value; a call that returned a value returned true exactly when
\* the status was running, stopping or stopped.
C31_ExistsOutcomes ==
  LET last == instance.response
      unknown == ReportedStatuses \ INSTANCE_KNOWN_STATUSES
      transitional ==
        \/ last.reservations = 0
        \/ last.reservations = 1 /\ last.status \in INSTANCE_TRANSITIONAL_STATUSES
  IN instance.polls > 0 =>
       /\ instance.seen \cap unknown # {} =>
            /\ instance.pc = "done"
            /\ instance.error = "AwsUnknownStatusError"
            /\ last.status \in unknown
       /\ (instance.pc = "done" /\ transitional) =>
            /\ instance.result = "none"
            /\ instance.error = "AwsTransitionalVmRetryableError"
       /\ instance.result # "none" =>
            /\ instance.pc = "done"
            /\ last.reservations = 1
            /\ instance.result = "True" <=> last.status \in INSTANCE_EXISTS_STATUSES
            /\ instance.result = "False" <=> last.status \in INSTANCE_DELETED_STATUSES

\* C31 witness: the instance was pending on the first requests, which were
\* retried, and _Exists returned true on a later status of running.
C31_Witness ==
  /\ instance.polls = 3
  /\ instance.seen = {"pending", "none", "running"}
  /\ instance.result = "True"

\* C31, second reachable case: an unknown status ended the call on its
\* first request.
C31_UnknownStatusRaised ==
  /\ instance.polls = 1
  /\ instance.error = "AwsUnknownStatusError"
  /\ instance.pc = "done"

\* The instance of the last describe-instances was terminated for lack of
\* capacity.
TerminatedForCapacity ==
  /\ instance.polls > 0
  /\ instance.response.reservations = 1
  /\ instance.response.status = "terminated"
  /\ instance.response.reason = "Server.InsufficientInstanceCapacity"

\* C32 as stated: a capacity failure (InsufficientInstanceCapacity on
\* run-instances, or a terminated instance with reason
\* Server.InsufficientInstanceCapacity) and a price failure
\* (SpotMaxPriceTooLow) are each raised as InsufficientCapacityCloudFailure,
\* and for a spot instance each has set early_termination with a
\* spot_status_code.
C32_CapacityAndPriceFailuresRaisedAlike ==
  (instance.pc = "done"
     /\ \/ instance.stderr \in {"InsufficientInstanceCapacity", "SpotMaxPriceTooLow"}
        \/ TerminatedForCapacity) =>
    /\ instance.error = "InsufficientCapacityCloudFailure"
    /\ instance.use_spot_instance =>
         /\ instance.early_termination
         /\ instance.spot_status_code # "None"

\* C32 amended: InsufficientInstanceCapacity on run-instances raises
\* InsufficientCapacityCloudFailure, having set early_termination and the
\* spot_status_code InsufficientSpotInstanceCapacity for a spot instance
\* only; SpotMaxPriceTooLow raises CreationError, having set
\* early_termination and the spot_status_code SpotMaxPriceTooLow; an
\* instance found terminated with reason Server.InsufficientInstanceCapacity
\* makes _Exists raise InsufficientCapacityCloudFailure and leaves
\* early_termination and spot_status_code as they were.
C32_FailureKindsAndSpotFields ==
  instance.pc = "done" =>
    /\ instance.stderr = "InsufficientInstanceCapacity" =>
         /\ instance.error = "InsufficientCapacityCloudFailure"
         /\ instance.early_termination = instance.use_spot_instance
         /\ instance.spot_status_code =
              IF instance.use_spot_instance
                THEN "InsufficientSpotInstanceCapacity" ELSE "None"
    /\ instance.stderr = "SpotMaxPriceTooLow" =>
         /\ instance.error = "CreationError"
         /\ instance.early_termination
         /\ instance.spot_status_code = "SpotMaxPriceTooLow"
    /\ TerminatedForCapacity =>
         /\ instance.error = "InsufficientCapacityCloudFailure"
         /\ ~instance.early_termination
         /\ instance.spot_status_code = "None"

\* C32 witness: a spot instance was found terminated for lack of capacity
\* and _Exists raised the capacity failure with the spot fields untouched.
C32_Witness ==
  /\ instance.pc = "done"
  /\ instance.use_spot_instance
  /\ TerminatedForCapacity
  /\ instance.error = "InsufficientCapacityCloudFailure"
  /\ ~instance.early_termination

\* C32, second reachable case: run-instances of a spot instance reported
\* SpotMaxPriceTooLow and _Create raised CreationError.
C32_PriceFailureRaised ==
  /\ instance.pc = "done"
  /\ instance.use_spot_instance
  /\ instance.stderr = "SpotMaxPriceTooLow"
  /\ instance.error = "CreationError"

\* The hosts in some host_list.
ListedHosts == UNION {{host_map[k][i] : i \in DOMAIN host_map[k]} : k \in DOMAIN host_map}

\* The VMs whose self.host is the host, and whether all of them are through
\* _DeleteDependencies.
HoldersOf(host) == {v \in DOMAIN host_vms : host_vms[v].host = host}

CausedBy(host) == {h \in DOMAIN hosts : hosts[h].cause = host}

\* The hosts of the key made by _CreateDependencies.
FirstHosts(key) == {h \in DOMAIN hosts : hosts[h].key = key /\ hosts[h].cause = 0}

\* No host of the key has been taken out of its host_list yet.
NoneRemoved(key) ==
  \A h \in DOMAIN hosts : hosts[h].key = key => hosts[h].delete_calls = 0

\* C37 as stated: for the dedicated-host VMs of one (machine_type, zone)
\* created concurrently, _CreateDependencies allocates one host, for the
\* first VM, and none for the others, and whatever the interleaving no
\* host that ran out of room has more than one new host allocated for it.
C37_OneNewHostPerExhaustedHost ==
  /\ \A key \in HostKeys : NoneRemoved(key) => Cardinality(FirstHosts(key)) <= 1
  /\ \A host \in DOMAIN hosts : Cardinality(CausedBy(host)) <= 1

\* C37, the part that holds: _CreateDependencies allocates at most one host
\* per key while none is removed, a new host is appended in _Create only
\* by a VM that finds the host_list as long as it read it, and every
\* failing VM goes on with the newest host of the list and the next client
\* token.
C37_RetryOnNewestHost ==
  /\ [](\A key \in HostKeys : NoneRemoved(key) => Cardinality(FirstHosts(key)) <= 1)
  /\ [][\A v \in DOMAIN host_vms :
          /\ (host_vms[v].pc = "retry.allocate"
                /\ Len(hosts') > Len(hosts)) =>
               host_vms[v].num_hosts = Len(host_list(v))
          /\ (host_vms[v].pc = "retry.host" /\ host_vms'[v].pc = "_Create") =>
               /\ host_vms'[v].host = host_list(v)[Len(host_list(v))]
               /\ host_vms'[v].client_token = host_vms[v].client_token + 1]_vars

\* C37, the state that refutes it: no call has raised, and one host that
\* ran out of room has had two new hosts allocated for it, the second
\* while the first still had no instance.
C37_TwoHostsForOneExhausted ==
  /\ \A v \in DOMAIN host_vms : host_vms[v].error = "none"
  /\ \E host \in DOMAIN hosts : \E h1, h2 \in CausedBy(host) :
       /\ h1 < h2
       /\ hosts[h1].instances = 0
       /\ hosts[h2].instances = 0
====
